---------------------------- MODULE Spec2Model ----------------------------
(***************************************************************************)
(* Charged particles in a reflecting box (zina3112/datpro).                *)
(*                                                                         *)
(* Model of src/src: Teilchen, kraefte, integrator (RK4), Box (exact wall  *)
(* collision handler) and Simulation.schritt.                              *)
(*                                                                         *)
(* Numbers.  The program computes in float64.  The model computes in exact *)
(* rationals <<n, d>> (d > 0, lowest terms) in SI units, so sums, products *)
(* and quotients of the integrator and of the collision handler are the    *)
(* real-number values of the program's expressions.  The one irrational    *)
(* operation, the Euclidean norm of the Coulomb law, is evaluated in fixed *)
(* point (displacement, norm and force truncated toward zero onto a grid), *)
(* which, like float rounding, is odd-symmetric.                           *)
(*                                                                         *)
(* Mutation.  The Python functions mutate the particles they are handed.   *)
(* An operator of the model takes the particle list (and the box) as it is *)
(* on entry and returns a record with the list as the call leaves it; ok = *)
(* FALSE stands for a call that raised.  A function body is split into     *)
(* operators at its intermediate results, each result handed on as an      *)
(* argument.  The target particle of a call is alle_teilchen[index], as in *)
(* Simulation.schritt.                                                     *)
(***************************************************************************)
EXTENDS Integers, Naturals, Sequences, FiniteSets, TLC

-----------------------------------------------------------------------------
(* float64 arithmetic, as exact rationals                                   *)

Abs(n) == IF n < 0 THEN -n ELSE n

Vorzeichen(n) == IF n < 0 THEN -1 ELSE IF n > 0 THEN 1 ELSE 0

RECURSIVE GGT(_, _)
GGT(a, b) == IF b = 0 THEN a ELSE GGT(b, a % b)

\* n/d in lowest terms with a positive denominator (d # 0).
Bruch(n, d) ==
    LET g == GGT(Abs(n), Abs(d))
        s == IF d < 0 THEN -1 ELSE 1
    IN  <<(s * n) \div g, (s * d) \div g>>

Ganz(n) == <<n, 1>>

Null == <<0, 1>>

\* a + b over the least common denominator.
Plus(a, b) ==
    LET g == GGT(a[2], b[2])
    IN  Bruch(a[1] * (b[2] \div g) + b[1] * (a[2] \div g), (a[2] \div g) * b[2])

Minus(a, b) ==
    LET g == GGT(a[2], b[2])
    IN  Bruch(a[1] * (b[2] \div g) - b[1] * (a[2] \div g), (a[2] \div g) * b[2])

Mal(a, b) ==
    LET g1 == GGT(Abs(a[1]), b[2])
        g2 == GGT(Abs(b[1]), a[2])
    IN  <<(a[1] \div g1) * (b[1] \div g2), (a[2] \div g2) * (b[2] \div g1)>>

\* a / b for b # 0.
Durch(a, b) == Mal(a, Bruch(b[2], b[1]))

Neg(a) == <<-a[1], a[2]>>

Betrag(a) == <<Abs(a[1]), a[2]>>

Kleiner(a, b) ==
    LET g == GGT(a[2], b[2])
    IN  a[1] * (b[2] \div g) < b[1] * (a[2] \div g)

KleinerGleich(a, b) ==
    LET g == GGT(a[2], b[2])
    IN  a[1] * (b[2] \div g) <= b[1] * (a[2] \div g)

\* Integer quotient rounded toward zero (float rounding is odd-symmetric).
Gestutzt(n, d) == Vorzeichen(n) * Vorzeichen(d) * (Abs(n) \div Abs(d))

RECURSIVE WurzelSuche(_, _)
WurzelSuche(n, x) ==
    LET y == (x + n \div x) \div 2
    IN  IF y >= x THEN x ELSE WurzelSuche(n, y)

\* Integer square root of n >= 0, rounded down (Newton's iteration from above).
GanzWurzel(n) == IF n = 0 THEN 0 ELSE WurzelSuche(n, n)

\* A list built by a function constructor, held as a sequence value.
Liste(f) == f \o <<>>

\* Vectors are sequences of rationals (2 or 4 components).
VPlus(u, v) ==
    IF Len(u) = 2
    THEN <<Plus(u[1], v[1]), Plus(u[2], v[2])>>
    ELSE <<Plus(u[1], v[1]), Plus(u[2], v[2]), Plus(u[3], v[3]), Plus(u[4], v[4])>>

VMinus(u, v) ==
    IF Len(u) = 2
    THEN <<Minus(u[1], v[1]), Minus(u[2], v[2])>>
    ELSE <<Minus(u[1], v[1]), Minus(u[2], v[2]), Minus(u[3], v[3]), Minus(u[4], v[4])>>

VMal(c, v) ==
    IF Len(v) = 2
    THEN <<Mal(c, v[1]), Mal(c, v[2])>>
    ELSE <<Mal(c, v[1]), Mal(c, v[2]), Mal(c, v[3]), Mal(c, v[4])>>

VDurch(v, c) ==
    IF Len(v) = 2
    THEN <<Durch(v[1], c), Durch(v[2], c)>>
    ELSE <<Durch(v[1], c), Durch(v[2], c), Durch(v[3], c), Durch(v[4], c)>>

Halb == <<1, 2>>

Sechs == <<6, 1>>

Zwei == <<2, 1>>

Zehntel == <<1, 10>>

\* np.zeros(4)
Nullvektor4 == <<Null, Null, Null, Null>>

-----------------------------------------------------------------------------
(* konstanten.py                                                            *)

\* GRAVITATION = -10.0
GRAVITATION == Ganz(-10)

\* MASSE = 1.0
MASSE == Ganz(1)

\* LADUNG = 50.0
LADUNG == Ganz(50)

BOX_MIN_X == Ganz(0)

BOX_MAX_X == Ganz(100)

BOX_MIN_Y == Ganz(0)

BOX_MAX_Y == Ganz(100)

\* EPSILON = 1e-10, held as the exponent of 10^-10.
EPSILON_EXPONENT == 10

\* The zero-step threshold 1e-15 of the integrator, as the exponent of 10^-15.
NULLSCHRITT_EXPONENT == 15

MAX_KOLLISIONS_ITERATIONEN == 10

\* n/d < 10^-e, for n >= 0, without forming 10^e:
\* n*10^e < d  <=>  n*10^(e-1) < d/10  <=>  n*10^(e-1) < ceil(d/10).
RECURSIVE KleinerZehnHochMinus(_, _, _)
KleinerZehnHochMinus(n, d, e) ==
    IF e = 0 THEN n < d
    ELSE IF n = 0 THEN TRUE
    ELSE IF d = 1 THEN FALSE
    ELSE KleinerZehnHochMinus(n, (d + 9) \div 10, e - 1)

\* n/d > 10^-e, for n >= 0:
\* n*10^e > d  <=>  n*10^(e-1) > d/10  <=>  n*10^(e-1) > floor(d/10).
RECURSIVE GroesserZehnHochMinus(_, _, _)
GroesserZehnHochMinus(n, d, e) ==
    IF e = 0 THEN n > d
    ELSE IF n = 0 THEN FALSE
    ELSE IF d = 0 THEN TRUE
    ELSE GroesserZehnHochMinus(n, d \div 10, e - 1)

\* a > EPSILON
GroesserEpsilon(a) ==
    a[1] > 0 /\ GroesserZehnHochMinus(a[1], a[2], EPSILON_EXPONENT)

\* a < EPSILON
KleinerEpsilon(a) ==
    a[1] < 0 \/ KleinerZehnHochMinus(a[1], a[2], EPSILON_EXPONENT)

\* kraefte.py 58 and 176: min_abstand = 1e-6.
MIN_ABSTAND_EXPONENT == 6

\* Variant: an integrator without the zero-step exit.
NieNullschritt(h) == FALSE

\* abs(dt) < 1e-15
IstNullschritt(dt) == KleinerZehnHochMinus(Abs(dt[1]), dt[2], NULLSCHRITT_EXPONENT)

-----------------------------------------------------------------------------
(* teilchen.py: a particle is a record                                      *)
(*   [zustand |-> <<x, y, vx, vy>>, masse, ladung, kollisionszaehler]       *)

\* Teilchen.__init__
NeuesTeilchen(x, y, vx, vy, masse, ladung) ==
    [zustand |-> <<x, y, vx, vy>>, masse |-> masse, ladung |-> ladung,
     kollisionszaehler |-> 0]

\* Lines 55-56: masse / ladung if given, else the constant.  An optional
\* argument is <<>> for None and <<wert>> for a value.
OderStandard(wahl, standard) == IF wahl = <<>> THEN standard ELSE wahl[1]

\* Teilchen.__init__ as a call: the constructor has no raise statement, so
\* the call returns for every argument.
Teilchen_init(x, y, vx, vy, masse, ladung) ==
    [ok |-> TRUE,
     teilchen |-> NeuesTeilchen(x, y, vx, vy, OderStandard(masse, MASSE),
                                OderStandard(ladung, LADUNG))]

\* Teilchen.position
Position(zustand) == <<zustand[1], zustand[2]>>

\* Teilchen.geschwindigkeit
Geschwindigkeit(zustand) == <<zustand[3], zustand[4]>>

\* Teilchen.aktualisiere_zustand on a 4-vector: the state is replaced by a copy.
aktualisiere_zustand(t, neuer_zustand) == [t EXCEPT !.zustand = neuer_zustand]

\* Variant: only a vector that is too short is refused.
IstZuKurz(neuer_zustand) == Len(neuer_zustand) < 4

\* Line 173: len(neuer_zustand) != 4
HatFalscheLaenge(neuer_zustand) == Len(neuer_zustand) # 4

\* Line 177: np.array(neuer_zustand, dtype=np.float64) allocates a new array;
\* geteilt says whether the result shares storage with the argument.
FeldKopie(feld) == [wert |-> feld, geteilt |-> FALSE]

\* Lines 177 for the array feld.
SetzeFeld(t, feld) ==
    [ok |-> TRUE, teilchen |-> aktualisiere_zustand(t, feld.wert),
     geteilt |-> feld.geteilt]

\* Teilchen.aktualisiere_zustand as a call: ok = FALSE stands for the
\* ValueError of line 174, raised before the state is touched.
aktualisiere_zustand_aufruf(t, neuer_zustand) ==
    IF HatFalscheLaenge(neuer_zustand)
    THEN [ok |-> FALSE, teilchen |-> t, geteilt |-> FALSE]
    ELSE SetzeFeld(t, FeldKopie(neuer_zustand))

\* [p.zustand.copy() for p in teilchen]
Zustaende(ts) == Liste([i \in DOMAIN ts |-> ts[i].zustand])

-----------------------------------------------------------------------------
(* kraefte.py                                                               *)

berechne_gravitationskraft(t) == <<Null, Mal(t.masse, GRAVITATION)>>

\* A rational truncated toward zero onto the integer grid.
Stutze(a) == Gestutzt(a[1], a[2])

\* np.linalg.norm in fixed point: the norm of an integer vector, rounded down.
Norm(v) == GanzWurzel(v[1] * v[1] + v[2] * v[2])

\* Line 47: verschiebung = pos1 - pos2, on the grid.
Verschiebung(t1, t2) ==
    <<Stutze(Minus(t1.zustand[1], t2.zustand[1])),
      Stutze(Minus(t1.zustand[2], t2.zustand[2]))>>

\* Line 72: the magnitude k*q1*q2/r^2 (k = 1).  A grid distance is 0 or at
\* least 1, so no modelled distance lies in the soft-core range
\* EPSILON <= r < min_abstand of lines 59-68.
Kraftbetrag(ladungen, abstand) == Durch(ladungen, Mal(abstand, abstand))

\* Lines 52-77 for a displacement of norm abstand: zero for overlapping
\* particles, else kraft_betrag * r_vektor / abstand.
Coulombkraft(ladungen, verschiebung, abstand) ==
    IF KleinerEpsilon(abstand)
    THEN <<Null, Null>>
    ELSE <<Ganz(Stutze(Mal(Kraftbetrag(ladungen, abstand),
                           Durch(Ganz(verschiebung[1]), abstand)))),
           Ganz(Stutze(Mal(Kraftbetrag(ladungen, abstand),
                           Durch(Ganz(verschiebung[2]), abstand))))>>

\* The force on t1 exerted by t2.
berechne_coulombkraft_zwischen(t1, t2) ==
    Coulombkraft(Mal(t1.ladung, t2.ladung), Verschiebung(t1, t2),
                 Ganz(Norm(Verschiebung(t1, t2))))

\* Lines 233-234: the index pairs (i, j) for which the loops call
\* berechne_coulombkraft_zwischen.
Paarauswertungen(ts) ==
    {p \in (DOMAIN ts) \X (DOMAIN ts) : p[1] < p[2]}

\* Variant: the pair force is added to particle i only; particle j receives
\* no reaction.
RECURSIVE PaarSummeOhneGegenkraft(_, _, _)
PaarSummeOhneGegenkraft(ts, k, j) ==
    IF j = 0 THEN <<Null, Null>>
    ELSE VPlus(PaarSummeOhneGegenkraft(ts, k, j - 1),
               IF k < j THEN berechne_coulombkraft_zwischen(ts[k], ts[j])
               ELSE <<Null, Null>>)

\* The pair loop of berechne_system_kraefte_symmetrisch: every pair i < j is
\* evaluated once, added to i and subtracted from j.
RECURSIVE PaarSumme(_, _, _)
PaarSumme(ts, k, j) ==
    IF j = 0 THEN <<Null, Null>>
    ELSE VPlus(PaarSumme(ts, k, j - 1),
               IF k < j THEN berechne_coulombkraft_zwischen(ts[k], ts[j])
               ELSE IF j < k
                    THEN VMal(Ganz(-1), berechne_coulombkraft_zwischen(ts[j], ts[k]))
                    ELSE <<Null, Null>>)

berechne_system_kraefte_symmetrisch(ts) ==
    Liste([i \in DOMAIN ts |->
            VPlus(berechne_gravitationskraft(ts[i]), PaarSumme(ts, i, Len(ts)))])

\* The sum of a list of 2-vectors.
RECURSIVE Vektorsumme(_, _)
Vektorsumme(vs, n) ==
    IF n = 0 THEN <<Null, Null>> ELSE VPlus(Vektorsumme(vs, n - 1), vs[n])

\* The gravity force of every particle (lines 228-229).
Gravitationskraefte(ts) ==
    Liste([k \in DOMAIN ts |-> berechne_gravitationskraft(ts[k])])

\* Variant: the force is taken as the acceleration, whatever the mass.
BeschleunigungenOhneMasse(ts, kraefte) == kraefte

\* Lines 257-262: a = F/m, zero for a mass below EPSILON.
Beschleunigungen(ts, kraefte) ==
    Liste([i \in DOMAIN ts |->
            IF KleinerEpsilon(Betrag(ts[i].masse))
            THEN <<Null, Null>>
            ELSE VDurch(kraefte[i], ts[i].masse)])

berechne_system_beschleunigungen(ts) ==
    Beschleunigungen(ts, berechne_system_kraefte_symmetrisch(ts))

\* Teilchen.kinetische_energie: 0.5 * m * (vx^2 + vy^2).
kinetische_energie(t) ==
    Mal(Mal(Halb, t.masse),
        Plus(Mal(t.zustand[3], t.zustand[3]), Mal(t.zustand[4], t.zustand[4])))

\* Teilchen.potentielle_energie_gravitation: -m * g * y.
potentielle_energie_gravitation(t) ==
    Mal(Mal(Neg(t.masse), GRAVITATION), t.zustand[2])

RECURSIVE ZehnHoch(_)
ZehnHoch(e) == IF e = 0 THEN 1 ELSE 10 * ZehnHoch(e - 1)

\* kraefte.py 173-185: the pair potential q_i*q_j / abstand, for the grid
\* distance abstand; a grid distance of 0 is below min_abstand, where the
\* potential is q_i*q_j / sqrt(0 + eps*eps) with eps = 1e-6.
Paarpotential(ladungen, abstand) ==
    IF abstand = 0
    THEN Mal(ladungen, Ganz(ZehnHoch(MIN_ABSTAND_EXPONENT)))
    ELSE Durch(ladungen, Ganz(abstand))

\* kraefte.py 155-189: the sum over the pairs (k, j) with j > k, for the
\* pairs up to (k, j).
RECURSIVE PotentialSumme(_, _, _)
PotentialSumme(ts, k, j) ==
    IF k = 0 THEN Null
    ELSE IF j <= k THEN PotentialSumme(ts, k - 1, Len(ts))
    ELSE Plus(PotentialSumme(ts, k, j - 1),
              Paarpotential(Mal(ts[k].ladung, ts[j].ladung),
                            Norm(Verschiebung(ts[k], ts[j]))))

berechne_potentielle_energie_coulomb(ts) == PotentialSumme(ts, Len(ts), Len(ts))

\* simulation.py 93-101: kinetic and gravitational energy of the first n
\* particles.
RECURSIVE Teilchenenergie(_, _)
Teilchenenergie(ts, n) ==
    IF n = 0 THEN Null
    ELSE Plus(Teilchenenergie(ts, n - 1),
              Plus(kinetische_energie(ts[n]),
                   potentielle_energie_gravitation(ts[n])))

\* Simulation.berechne_gesamtenergie
berechne_gesamtenergie(ts) ==
    Plus(Teilchenenergie(ts, Len(ts)), berechne_potentielle_energie_coulomb(ts))

\* datenverwalter.py 92-101: [zeit, gesamtenergie, x, y, vx, vy, ...].
RECURSIVE Zeile(_, _, _, _)
Zeile(zeit, gesamtenergie, ts, n) ==
    IF n = 0 THEN <<zeit, gesamtenergie>>
    ELSE Zeile(zeit, gesamtenergie, ts, n - 1) \o ts[n].zustand

\* Variant: the row is built and dropped.
erfasse_nichts(puffer, zeit, gesamtenergie, ts) == puffer

\* Datenverwalter.erfasse_zustand: one row is appended to the buffer.
erfasse_zustand(puffer, zeit, gesamtenergie, ts) ==
    Append(puffer, Zeile(zeit, gesamtenergie, ts, Len(ts)))

-----------------------------------------------------------------------------
(* kraefte.py, close range.  Separations near min_abstand = 1e-6 lie below  *)
(* the grid of the operators above, and their squares below the range of    *)
(* the rationals.  The operators of this section take positions in units of *)
(* min_abstand (one unit = 1e-6), in which min_abstand = 1 and EPSILON =    *)
(* 10^-(EPSILON_EXPONENT - MIN_ABSTAND_EXPONENT); a force magnitude in      *)
(* these units is the program's value times the constant 10^-12.  The norm  *)
(* and the power 1.5 are irrational, so distances and magnitudes are        *)
(* carried by their squares, and a magnitude's sign separately.             *)

\* min_abstand * min_abstand, in units of min_abstand.
MinAbstandQuadrat == Ganz(1)

\* Line 47: verschiebung = pos1 - pos2, exactly.
Verschiebungsvektor(t1, t2) ==
    <<Minus(t1.zustand[1], t2.zustand[1]), Minus(t1.zustand[2], t2.zustand[2])>>

\* Line 50: the square of np.linalg.norm(verschiebung).
AbstandQuadrat(v) == Plus(Mal(v[1], v[1]), Mal(v[2], v[2]))

\* Line 53: abstand < EPSILON, on the squares.
Ueberlappt(r_quadrat) ==
    KleinerZehnHochMinus(r_quadrat[1], r_quadrat[2],
                         2 * (EPSILON_EXPONENT - MIN_ABSTAND_EXPONENT))

\* Line 59: abstand < min_abstand, on the squares.
ImWeichkern(r_quadrat) == Kleiner(r_quadrat, MinAbstandQuadrat)

Hoch3(a) == Mal(a, Mal(a, a))

\* Lines 61-64: the square of q1*q2*abstand / (r_quadrat + eps*eps) ** 1.5.
WeichkernBetragQuadrat(ladungen, r_quadrat) ==
    Durch(Mal(Mal(ladungen, ladungen), r_quadrat),
          Hoch3(Plus(r_quadrat, MinAbstandQuadrat)))

\* Line 72: the square of q1*q2 / abstand ** 2.
NormalBetragQuadrat(ladungen, r_quadrat) ==
    Durch(Mal(ladungen, ladungen), Mal(r_quadrat, r_quadrat))

\* Lines 52-72 for a squared distance: the branch taken and the square and
\* sign of kraft_betrag.
Nahkraft(ladungen, r_quadrat) ==
    IF Ueberlappt(r_quadrat)
    THEN [zweig |-> "ueberlappung", r_quadrat |-> r_quadrat,
          ladungen |-> ladungen, betrag_quadrat |-> Null, vorzeichen |-> 0]
    ELSE IF ImWeichkern(r_quadrat)
    THEN [zweig |-> "weichkern", r_quadrat |-> r_quadrat,
          ladungen |-> ladungen,
          betrag_quadrat |-> WeichkernBetragQuadrat(ladungen, r_quadrat),
          vorzeichen |-> Vorzeichen(ladungen[1])]
    ELSE [zweig |-> "normal", r_quadrat |-> r_quadrat,
          ladungen |-> ladungen,
          betrag_quadrat |-> NormalBetragQuadrat(ladungen, r_quadrat),
          vorzeichen |-> Vorzeichen(ladungen[1])]

\* kraft_betrag of berechne_coulombkraft_zwischen(t1, t2) at close range.
coulombkraft_betrag(t1, t2) ==
    Nahkraft(Mal(t1.ladung, t2.ladung),
             AbstandQuadrat(Verschiebungsvektor(t1, t2)))

-----------------------------------------------------------------------------
(* integrator.py                                                            *)

\* Lines 41-46: [vx, vy, ax, ay] for every particle.
Ableitungen(ts, beschleunigungen) ==
    Liste([i \in DOMAIN ts |->
            <<ts[i].zustand[3], ts[i].zustand[4],
              beschleunigungen[i][1], beschleunigungen[i][2]>>])

\* ds/dt for every particle.
zustandsableitung(ts) == Ableitungen(ts, berechne_system_beschleunigungen(ts))

\* Variant: an integrator without the finally block.
OhneFinally(ts, gesichert) == ts

\* The finally block of both integrators: every particle gets back the state
\* saved on entry (gesichert).
StelleWiederHer(ts, gesichert) ==
    Liste([i \in DOMAIN ts |-> aktualisiere_zustand(ts[i], gesichert[i])])

\* Variant: the peers are held at their entry states during the stages.
VerschiebeNurZiel(ts, gesichert, ziel, h, abl, faktor) ==
    Liste([i \in DOMAIN ts |->
        IF i = ziel
        THEN aktualisiere_zustand(ts[i],
                VPlus(gesichert[i], VMal(faktor, VMal(h, abl[ziel]))))
        ELSE aktualisiere_zustand(ts[i], gesichert[i])])

\* The stage loops of rk4_schritt_einzeln: the target is moved by faktor*k with
\* k = h * abl[ziel], every peer by faktor*h times its own derivative.
VerschiebeEinzeln(ts, gesichert, ziel, h, abl, faktor) ==
    Liste([i \in DOMAIN ts |->
        IF i = ziel
        THEN aktualisiere_zustand(ts[i],
                VPlus(gesichert[i], VMal(faktor, VMal(h, abl[ziel]))))
        ELSE aktualisiere_zustand(ts[i],
                VPlus(gesichert[i], VMal(Mal(faktor, h), abl[i])))])

\* (k1 + 2*k2 + 2*k3 + k4) / 6.0
Kombiniere(ka, kb, kc, kd) ==
    VDurch(VPlus(VPlus(VPlus(ka, VMal(Zwei, kb)), VMal(Zwei, kc)), kd), Sechs)

\* A derivative evaluation can raise.  fehler is the number of evaluations
\* that still succeed before one raises; a negative fehler never raises.
\* Stage s of an integrator call (s = 1..4) raises when fehler = s - 1.
Fehlstufe(fehler) == IF fehler \in 0..3 THEN fehler + 1 ELSE 0

\* The evaluations left after a completed integrator call.
NachVierStufen(fehler) == IF fehler < 0 THEN fehler ELSE fehler - 4

\* Calls of aktualisiere_zustand made by an integrator call on n particles:
\* every particle is moved before each of the stages 2..4 that is reached and
\* restored once in the finally block.
Schreibvorgaenge(n, stufe) == n * (IF stufe = 0 THEN 4 ELSE stufe)

\* Variant: every stage advanced by the full k.
StufenfaktorEins(s) == Ganz(1)

\* The weight of the previous k in the particle states of stage s:
\* 0.5 for k2 and k3, 1 for k4.
Stufenfaktor(s) == IF s = 4 THEN Ganz(1) ELSE Halb

\* One stage of rk4_schritt_einzeln: the particle list the stage evaluates
\* and the derivatives there.
EinzelStufe(liste) == [teilchen |-> liste, ableitungen |-> zustandsableitung(liste)]

\* Lines 81-112: the stages k1..k4, each built on the one before.
RECURSIVE EinzelStufen(_, _, _, _)
EinzelStufen(stufen, gesichert, ziel, h) ==
    IF Len(stufen) = 4 THEN stufen
    ELSE EinzelStufen(
            Append(stufen,
                   EinzelStufe(VerschiebeEinzeln(
                       stufen[Len(stufen)].teilchen, gesichert, ziel, h,
                       stufen[Len(stufen)].ableitungen,
                       Stufenfaktor(Len(stufen) + 1)))),
            gesichert, ziel, h)

\* Lines 114-123: the increment, and the finally block that runs whether the
\* try block completed (stufe = 0) or stage stufe raised.
EinzelErgebnis(ziel, h, fehler, stufe, gesichert, stufen) ==
    [ok |-> stufe = 0,
     inkrement |->
        IF stufe = 0
        THEN Kombiniere(VMal(h, stufen[1].ableitungen[ziel]),
                        VMal(h, stufen[2].ableitungen[ziel]),
                        VMal(h, stufen[3].ableitungen[ziel]),
                        VMal(h, stufen[4].ableitungen[ziel]))
        ELSE Nullvektor4,
     teilchen |->
        StelleWiederHer(stufen[IF stufe = 0 THEN 4 ELSE stufe].teilchen, gesichert),
     fehler |-> IF stufe = 0 THEN NachVierStufen(fehler) ELSE -1,
     ausgewertet |-> IF stufe = 0 THEN 4 ELSE stufe,
     geschrieben |-> Schreibvorgaenge(Len(gesichert), stufe)]

\* rk4_schritt_einzeln.  Result: ok (FALSE: the call raised), inkrement,
\* teilchen (the particle list as the call leaves it), fehler (what is left
\* of the evaluation budget), ausgewertet (derivative evaluations made),
\* geschrieben (aktualisiere_zustand calls made).
rk4_schritt_einzeln(ts, teilchen_index, dt, fehler) ==
    IF IstNullschritt(dt)
    THEN [ok |-> TRUE, inkrement |-> Nullvektor4, teilchen |-> ts,
          fehler |-> fehler, ausgewertet |-> 0, geschrieben |-> 0]
    ELSE CHOOSE ergebnis \in
            {EinzelErgebnis(teilchen_index, dt, fehler, Fehlstufe(fehler),
                            Zustaende(ts), stufen) :
                stufen \in {EinzelStufen(<<EinzelStufe(ts)>>, Zustaende(ts),
                                         teilchen_index, dt)}} :
            TRUE

\* The stage loops of rk4_schritt_system: every particle is moved by faktor
\* times its own k.
VerschiebeSystem(ts, gesichert, ks, faktor) ==
    Liste([i \in DOMAIN ts |->
        aktualisiere_zustand(ts[i], VPlus(gesichert[i], VMal(faktor, ks[i])))])

\* k = dt * ableitung for every particle.
KListe(h, abl) == Liste([i \in DOMAIN abl |-> VMal(h, abl[i])])

\* One stage of rk4_schritt_system: the particle list the stage evaluates and
\* the k of every particle there.
SystemStufe(liste, h) ==
    [teilchen |-> liste, k_liste |-> KListe(h, zustandsableitung(liste))]

\* Lines 160-187: the stages k1..k4.
RECURSIVE SystemStufen(_, _, _)
SystemStufen(stufen, gesichert, h) ==
    IF Len(stufen) = 4 THEN stufen
    ELSE SystemStufen(
            Append(stufen,
                   SystemStufe(VerschiebeSystem(
                                   stufen[Len(stufen)].teilchen, gesichert,
                                   stufen[Len(stufen)].k_liste,
                                   Stufenfaktor(Len(stufen) + 1)),
                               h)),
            gesichert, h)

\* Variant: rk4_schritt_system that leaves the particles where stage 4 put them.
SystemErgebnisOhneFinally(fehler, stufe, gesichert, stufen) ==
    [ok |-> stufe = 0,
     inkremente |->
        IF stufe = 0
        THEN Liste([i \in DOMAIN gesichert |->
                Kombiniere(stufen[1].k_liste[i], stufen[2].k_liste[i],
                           stufen[3].k_liste[i], stufen[4].k_liste[i])])
        ELSE <<>>,
     teilchen |-> stufen[IF stufe = 0 THEN 4 ELSE stufe].teilchen,
     fehler |-> IF stufe = 0 THEN NachVierStufen(fehler) ELSE -1,
     ausgewertet |-> IF stufe = 0 THEN 4 ELSE stufe,
     geschrieben |-> Schreibvorgaenge(Len(gesichert), stufe)]

\* Lines 189-202: one increment per particle, and the finally block.
SystemErgebnis(fehler, stufe, gesichert, stufen) ==
    [ok |-> stufe = 0,
     inkremente |->
        IF stufe = 0
        THEN Liste([i \in DOMAIN gesichert |->
                Kombiniere(stufen[1].k_liste[i], stufen[2].k_liste[i],
                           stufen[3].k_liste[i], stufen[4].k_liste[i])])
        ELSE <<>>,
     teilchen |->
        StelleWiederHer(stufen[IF stufe = 0 THEN 4 ELSE stufe].teilchen, gesichert),
     fehler |-> IF stufe = 0 THEN NachVierStufen(fehler) ELSE -1,
     ausgewertet |-> IF stufe = 0 THEN 4 ELSE stufe,
     geschrieben |-> Schreibvorgaenge(Len(gesichert), stufe)]

\* rk4_schritt_system.  Result: ok, inkremente (one per particle), teilchen,
\* fehler, ausgewertet as for rk4_schritt_einzeln.
rk4_schritt_system(ts, dt, fehler) ==
    IF IstNullschritt(dt)
    THEN [ok |-> TRUE, inkremente |-> Liste([i \in DOMAIN ts |-> Nullvektor4]),
          teilchen |-> ts, fehler |-> fehler, ausgewertet |-> 0,
          geschrieben |-> 0]
    ELSE CHOOSE ergebnis \in
            {SystemErgebnis(fehler, Fehlstufe(fehler), Zustaende(ts), stufen) :
                stufen \in {SystemStufen(<<SystemStufe(ts, dt)>>, Zustaende(ts), dt)}} :
            TRUE

-----------------------------------------------------------------------------
(* box.py: a box is a record                                                *)
(*   [x_min, x_max, y_min, y_max, gesamt_kollisionen]                       *)

\* Box.__init__ with valid bounds
NeueBox(xa, xb, ya, yb) ==
    [x_min |-> xa, x_max |-> xb, y_min |-> ya, y_max |-> yb,
     gesamt_kollisionen |-> 0]

\* Variant: a box of zero width or height is accepted.
NurNegativ(breite, hoehe) == Kleiner(breite, Null) \/ Kleiner(hoehe, Null)

\* Line 41: self.breite <= 0 or self.hoehe <= 0
Dimensionsfehler(breite, hoehe) ==
    KleinerGleich(breite, Null) \/ KleinerGleich(hoehe, Null)

\* Box.__init__ as a call: ok = FALSE stands for the ValueError of line 42.
Box_init(xa, xb, ya, yb) ==
    IF Dimensionsfehler(Minus(xb, xa), Minus(yb, ya))
    THEN [ok |-> FALSE]
    ELSE [ok |-> TRUE, box |-> NeueBox(xa, xb, ya, yb)]

\* Box.ist_innerhalb (bounds inclusive)
ist_innerhalb(b, pos) ==
    /\ KleinerGleich(b.x_min, pos[1]) /\ KleinerGleich(pos[1], b.x_max)
    /\ KleinerGleich(b.y_min, pos[2]) /\ KleinerGleich(pos[2], b.y_max)

\* np.clip
Clip(a, lo, hi) == IF Kleiner(a, lo) THEN lo ELSE IF Kleiner(hi, a) THEN hi ELSE a

\* Variant: erzwinge_grenzen without np.clip.
Ungeklemmt(b, z) == z

\* Box.erzwinge_grenzen, on a state vector
Geklemmt(b, z) ==
    <<Clip(z[1], b.x_min, b.x_max), Clip(z[2], b.y_min, b.y_max), z[3], z[4]>>

\* Variant: a handler without the clamp of lines 212-217.
OhneSicherung(b, z) == z

\* Lines 212-217 of the handler: clamp a final state that lies outside.
SichereInnerhalb(b, z) ==
    IF ~ist_innerhalb(b, Position(z)) THEN Geklemmt(b, z) ELSE z

\* Box._wuerde_im_naechsten_schritt_austreten: linear look-ahead over h.
wuerde_im_naechsten_schritt_austreten(b, z, h) ==
    ~ist_innerhalb(b, <<Plus(z[1], Mal(z[3], h)), Plus(z[2], Mal(z[4], h))>>)

\* Variant: a fraction equal to the one found before replaces it.
WandtestAuchGleich(bisher, w, c0, c1, name) ==
    IF GroesserEpsilon(Betrag(Minus(c1, c0)))
    THEN LET t == Durch(Minus(w, c0), Minus(c1, c0))
         IN  IF KleinerGleich(Null, t) /\ KleinerGleich(t, bisher.bruchteil)
             THEN [bruchteil |-> t, wand |-> name]
             ELSE bisher
    ELSE bisher

\* Variant: any fraction in [0, 1) replaces the one found before.
WandtestLetzteGewinnt(bisher, w, c0, c1, name) ==
    IF GroesserEpsilon(Betrag(Minus(c1, c0)))
    THEN LET t == Durch(Minus(w, c0), Minus(c1, c0))
         IN  IF KleinerGleich(Null, t) /\ Kleiner(t, Ganz(1))
             THEN [bruchteil |-> t, wand |-> name]
             ELSE bisher
    ELSE bisher

\* One wall test of step 3: the wall at w is crossed from c0 to c1; the wall
\* is taken when the coordinate moves by more than EPSILON and the crossing
\* fraction t satisfies 0 <= t < bisher.bruchteil.
Wandtest(bisher, w, c0, c1, name) ==
    IF GroesserEpsilon(Betrag(Minus(c1, c0)))
    THEN LET t == Durch(Minus(w, c0), Minus(c1, c0))
         IN  IF KleinerGleich(Null, t) /\ Kleiner(t, bisher.bruchteil)
             THEN [bruchteil |-> t, wand |-> name]
             ELSE bisher
    ELSE bisher

\* Step 3 of the handler (lines 112-152): the smallest crossing fraction and
\* its wall; left before right (if/elif), then bottom before top (if/elif).
FindeWand(b, x0, y0, x1, y1) ==
    LET start == [bruchteil |-> Ganz(1), wand |-> "keine"]
        nach_x ==
            IF Kleiner(x1, b.x_min) /\ KleinerGleich(b.x_min, x0)
            THEN Wandtest(start, b.x_min, x0, x1, "links")
            ELSE IF Kleiner(b.x_max, x1) /\ KleinerGleich(x0, b.x_max)
                 THEN Wandtest(start, b.x_max, x0, x1, "rechts")
                 ELSE start
    IN  IF Kleiner(y1, b.y_min) /\ KleinerGleich(b.y_min, y0)
        THEN Wandtest(nach_x, b.y_min, y0, y1, "unten")
        ELSE IF Kleiner(b.y_max, y1) /\ KleinerGleich(y0, b.y_max)
             THEN Wandtest(nach_x, b.y_max, y0, y1, "oben")
             ELSE nach_x

\* Variant: both velocity components change sign at any wall.
ReflektiereBeide(z, wand) ==
    IF wand = "keine" THEN z ELSE <<z[1], z[2], Neg(z[3]), Neg(z[4])>>

\* Step 5 (lines 173-187), the state: the velocity component normal to the
\* struck wall changes sign.
Reflektiere(z, wand) ==
    IF wand \in {"links", "rechts"} THEN <<z[1], z[2], Neg(z[3]), z[4]>>
    ELSE IF wand \in {"unten", "oben"} THEN <<z[1], z[2], z[3], Neg(z[4])>>
    ELSE z

\* Variant: a collision is counted whether or not a wall was struck.
GezaehltImmer(n, wand) == n + 1

\* Step 5, the counters: one collision is counted when a wall was struck.
Gezaehlt(n, wand) == IF wand = "keine" THEN n ELSE n + 1

\* Variant: a cap three collisions later.
DarfRekursionSpaeter(rest, kollisionen) ==
    GroesserEpsilon(rest) /\ kollisionen < MAX_KOLLISIONS_ITERATIONEN + 3

\* Line 222: the guard of the recursive call.
DarfRekursion(rest, kollisionen) ==
    GroesserEpsilon(rest) /\ kollisionen < MAX_KOLLISIONS_ITERATIONEN

\* Variant: the target particle keeps the reflected state.
OhneZielWiederherstellung(ts, ziel, z) == ts

\* Lines 205 and 231: the target particle gets its entry state back.
StelleZielWiederHer(ts, ziel, z) ==
    [ts EXCEPT ![ziel] = aktualisiere_zustand(ts[ziel], z)]

\* Variant: the target particle keeps its entry state.
SetzeZielNicht(ts, ziel, z) == ts

\* Lines 194 and 223: the target particle is set to the reflected state.
SetzeZiel(ts, ziel, z) ==
    [ts EXCEPT ![ziel] = aktualisiere_zustand(ts[ziel], z)]

\* What a handler call that raised leaves behind: no returned state, the
\* particle list and the counter as they were when the error left the call.
\* stelle names the integrator call that raised, in the innermost invocation.
Abbruch(liste, kollisionen, n_tief, stelle) ==
    [ok |-> FALSE, zustand |-> <<>>, teilchen |-> liste,
     gesamt_kollisionen |-> kollisionen, fehler |-> -1, tiefe |-> n_tief,
     ausgang |-> "fehler", innen |-> stelle, wand |-> "keine",
     bruchteil |-> Ganz(1)]

\* The result of a skipped integrator call (dt_bis_kollision or
\* dt_nach_kollision not above EPSILON): no increment, nothing touched.
OhneSchritt(liste, fehler) ==
    [ok |-> TRUE, inkrement |-> Nullvektor4, teilchen |-> liste,
     fehler |-> fehler, ausgewertet |-> 0, geschrieben |-> 0]

\* Box.behandle_wandkollision_exakt.  Result:
\*   ok                  FALSE when an integrator call raised
\*   zustand             the returned final state
\*   teilchen            the particle list as the call leaves it
\*   gesamt_kollisionen  the box counter as the call leaves it
\*   fehler              what is left of the evaluation budget
\*   tiefe               handler invocations nested in this call, itself included
\*   ausgang             the return path taken by this invocation
\*   innen               the return path of the innermost invocation
\*   wand, bruchteil     the wall struck at this level and its crossing fraction
\*   stufe5              present when this invocation reached step 5
\* The body is split at the integrator calls; z0 is urspruenglicher_zustand.
\* An invocation is evaluated up to its recursive call, which is made once
\* that part is complete ("offen" marks an invocation waiting for it), so
\* that the nesting of the evaluation grows by the call alone.
RECURSIVE behandle_wandkollision_exakt(_, _, _, _, _)

\* The result of an invocation, with what its step 5 did.
MitStufe5(ergebnis, stufe5) == [stufe5 |-> stufe5] @@ ergebnis

\* Lines 228-233: the recursive call has returned; the entry state is put
\* back and the recursive result is returned.  offen is this invocation at
\* the recursive call.
NachRekursion(ziel, z0, offen, rekursiv) ==
    MitStufe5(
        IF ~rekursiv.ok
        THEN Abbruch(rekursiv.teilchen, rekursiv.gesamt_kollisionen,
                     1 + rekursiv.tiefe, rekursiv.innen)
        ELSE [ok |-> TRUE, zustand |-> rekursiv.zustand,
              teilchen |-> StelleZielWiederHer(rekursiv.teilchen, ziel, z0),
              gesamt_kollisionen |-> rekursiv.gesamt_kollisionen,
              fehler |-> rekursiv.fehler, tiefe |-> 1 + rekursiv.tiefe,
              ausgang |-> "rekursion", innen |-> rekursiv.innen,
              wand |-> offen.wand, bruchteil |-> offen.bruchteil],
        offen.stufe5)

\* Lines 222-233: the recursive call of an invocation that reached it, with
\* the target at the reflected state and the remaining time as dt.
Rekursion(ziel, z0, ergebnis) ==
    IF ergebnis.ausgang = "offen"
    THEN CHOOSE fertig \in
            {NachRekursion(ziel, z0, ergebnis, rekursiv) :
                rekursiv \in {behandle_wandkollision_exakt(
                                 ergebnis.box, ergebnis.teilchen, ziel,
                                 ergebnis.dt, ergebnis.fehler)}} :
            TRUE
    ELSE ergebnis

\* The return path of an invocation that handled a collision without
\* recursing: "reflexion" (no secondary collision), "kappe" (secondary
\* collision, time left, counter at the cap) or "grenzfall" (secondary
\* collision, no time left).
Blattausgang(b, h, dt_nach_kollision, finaler_zustand) ==
    IF \/ ~ist_innerhalb(b, Position(finaler_zustand))
       \/ wuerde_im_naechsten_schritt_austreten(b, finaler_zustand, Mal(h, Zehntel))
    THEN IF GroesserEpsilon(dt_nach_kollision) THEN "kappe" ELSE "grenzfall"
    ELSE "reflexion"

\* Lines 219-226: the secondary-collision check on the clamped final state;
\* the invocation returns its final state or is at its recursive call.
Sekundaerkollision(b, ziel, h, z0, fund, reflektierter_zustand, dt_nach_kollision, fehler, liste, finaler_zustand) ==
    IF /\ \/ ~ist_innerhalb(b, Position(finaler_zustand))
          \/ wuerde_im_naechsten_schritt_austreten(b, finaler_zustand,
                                                   Mal(h, Zehntel))
       /\ DarfRekursion(dt_nach_kollision, b.gesamt_kollisionen)
    THEN [ok |-> TRUE, ausgang |-> "offen", box |-> b,
          teilchen |-> SetzeZiel(liste, ziel, reflektierter_zustand),
          dt |-> dt_nach_kollision, fehler |-> fehler,
          wand |-> fund.wand, bruchteil |-> fund.bruchteil]
    ELSE [ok |-> TRUE, zustand |-> finaler_zustand, teilchen |-> liste,
          gesamt_kollisionen |-> b.gesamt_kollisionen, fehler |-> fehler,
          tiefe |-> 1,
          ausgang |-> Blattausgang(b, h, dt_nach_kollision, finaler_zustand),
          innen |-> Blattausgang(b, h, dt_nach_kollision, finaler_zustand),
          wand |-> fund.wand, bruchteil |-> fund.bruchteil]

\* Lines 203-217: the remaining step has been computed (rest); the entry state
\* is put back, the final state is formed and clamped.
NachReststrecke(b, ziel, h, z0, fund, reflektierter_zustand, dt_nach_kollision, rest) ==
    IF ~rest.ok
    THEN Abbruch(rest.teilchen, b.gesamt_kollisionen, 1, "reststrecke")
    ELSE Sekundaerkollision(
            b, ziel, h, z0, fund, reflektierter_zustand, dt_nach_kollision,
            rest.fehler,
            IF GroesserEpsilon(dt_nach_kollision)
            THEN StelleZielWiederHer(rest.teilchen, ziel, z0)
            ELSE rest.teilchen,
            SichereInnerhalb(b, VPlus(reflektierter_zustand, rest.inkrement)))

\* Lines 189-201: step 6, the rest of the step from the reflected state.
Reststrecke(b, ziel, h, z0, fund, reflektierter_zustand, dt_nach_kollision, fehler, liste) ==
    NachReststrecke(
        b, ziel, h, z0, fund, reflektierter_zustand, dt_nach_kollision,
        IF GroesserEpsilon(dt_nach_kollision)
        THEN rk4_schritt_einzeln(SetzeZiel(liste, ziel, reflektierter_zustand),
                                 ziel, dt_nach_kollision, fehler)
        ELSE OhneSchritt(liste, fehler))

\* Lines 166-187 as this invocation ran them: the wall, the state on the
\* wall, the reflected state and the two counters before and after step 5.
Stufe5(b, ziel, z0, fund, bis) ==
    [wand |-> fund.wand,
     zustand_bei_kollision |-> VPlus(z0, bis.inkrement),
     reflektierter_zustand |-> Reflektiere(VPlus(z0, bis.inkrement), fund.wand),
     gesamt_kollisionen_vorher |-> b.gesamt_kollisionen,
     gesamt_kollisionen |-> Gezaehlt(b.gesamt_kollisionen, fund.wand),
     kollisionszaehler_vorher |-> bis.teilchen[ziel].kollisionszaehler,
     kollisionszaehler |-> Gezaehlt(bis.teilchen[ziel].kollisionszaehler, fund.wand)]

\* Lines 166-190: the state on the wall (bis is the step up to the collision),
\* step 5 (reflect and count) and dt_nach_kollision.
NachKollisionsschritt(b, ziel, h, z0, fund, bis) ==
    IF ~bis.ok
    THEN Abbruch(bis.teilchen, b.gesamt_kollisionen, 1, "kollisionsschritt")
    ELSE MitStufe5(
            Reststrecke(
                [b EXCEPT !.gesamt_kollisionen = Gezaehlt(@, fund.wand)],
                ziel, h, z0, fund,
                Reflektiere(VPlus(z0, bis.inkrement), fund.wand),
                Minus(h, Mal(fund.bruchteil, h)),
                bis.fehler,
                [bis.teilchen EXCEPT ![ziel].kollisionszaehler = Gezaehlt(@, fund.wand)]),
            Stufe5(b, ziel, z0, fund, bis))

\* Lines 154-164: step 4, RK4 up to the collision.
Kollisionsschritt(b, ziel, h, z0, liste, fehler, fund) ==
    NachKollisionsschritt(
        b, ziel, h, z0, fund,
        IF GroesserEpsilon(Mal(fund.bruchteil, h))
        THEN rk4_schritt_einzeln(liste, ziel, Mal(fund.bruchteil, h), fehler)
        ELSE OhneSchritt(liste, fehler))

\* Variant: the full step is returned and counted as a collision.
KeineKollisionGezaehlt(b, voll, vorlaeufiger_neuer_zustand) ==
    [ok |-> TRUE, zustand |-> vorlaeufiger_neuer_zustand,
     teilchen |-> voll.teilchen,
     gesamt_kollisionen |-> b.gesamt_kollisionen + 1,
     fehler |-> voll.fehler, tiefe |-> 1,
     ausgang |-> "keine_kollision", innen |-> "keine_kollision",
     wand |-> "keine", bruchteil |-> Ganz(1)]

\* Lines 105-107: the full step is returned; nothing was reflected or counted.
KeineKollision(b, voll, vorlaeufiger_neuer_zustand) ==
    [ok |-> TRUE, zustand |-> vorlaeufiger_neuer_zustand,
     teilchen |-> voll.teilchen,
     gesamt_kollisionen |-> b.gesamt_kollisionen,
     fehler |-> voll.fehler, tiefe |-> 1,
     ausgang |-> "keine_kollision", innen |-> "keine_kollision",
     wand |-> "keine", bruchteil |-> Ganz(1)]

\* Lines 99-152: voll is the full step; inside the box it is the result,
\* otherwise the wall is searched between the entry and the provisional
\* position.
NachVollschritt(b, ziel, h, z0, voll, vorlaeufiger_neuer_zustand) ==
    IF ~voll.ok
    THEN Abbruch(voll.teilchen, b.gesamt_kollisionen, 1, "vollschritt")
    ELSE IF ist_innerhalb(b, Position(vorlaeufiger_neuer_zustand))
    THEN KeineKollision(b, voll, vorlaeufiger_neuer_zustand)
    ELSE Kollisionsschritt(b, ziel, h, z0, voll.teilchen, voll.fehler,
                           FindeWand(b, z0[1], z0[2],
                                     vorlaeufiger_neuer_zustand[1],
                                     vorlaeufiger_neuer_zustand[2]))

\* Lines 88-97: the entry state is saved and the full RK4 step is computed as
\* if there were no walls.
Vollschritt(b, ziel, h, z0, voll) ==
    NachVollschritt(b, ziel, h, z0, voll, VPlus(z0, voll.inkrement))

behandle_wandkollision_exakt(b, ts, teilchen_index, dt, fehler) ==
    Rekursion(teilchen_index, ts[teilchen_index].zustand,
              Vollschritt(b, teilchen_index, dt, ts[teilchen_index].zustand,
                          rk4_schritt_einzeln(ts, teilchen_index, dt, fehler)))

\* Lines 257-266 and 269-279 for one axis: a coordinate beyond a bound is
\* mirrored at it (if / elif: the lower bound is tested first).
Gespiegelt(c, c_min, c_max) ==
    IF Kleiner(c, c_min) THEN Minus(Mal(Ganz(2), c_min), c)
    ELSE IF Kleiner(c_max, c) THEN Minus(Mal(Ganz(2), c_max), c)
    ELSE c

\* The velocity component of a mirrored axis changes sign.
Umgekehrt(v, c, c_min, c_max) ==
    IF Kleiner(c, c_min) \/ Kleiner(c_max, c) THEN Neg(v) ELSE v

\* Variant: the box counts, the particle does not.
EinfachNurBoxGezaehlt(t, aufgetreten) == t

\* Line 283: the particle's counter after the call.
EinfachGezaehlt(t, aufgetreten) ==
    IF aufgetreten THEN [t EXCEPT !.kollisionszaehler = @ + 1] ELSE t

\* Box.pruefe_und_behandle_kollisionen_einfach (lines 247-286): position
\* mirrored and velocity reversed per axis; one collision is counted for the
\* call if any axis was mirrored.
pruefe_und_behandle_kollisionen_einfach(b, ts, ziel) ==
    LET z == ts[ziel].zustand
        kollision_aufgetreten ==
            \/ Kleiner(z[1], b.x_min) \/ Kleiner(b.x_max, z[1])
            \/ Kleiner(z[2], b.y_min) \/ Kleiner(b.y_max, z[2])
    IN  [kollision_aufgetreten |-> kollision_aufgetreten,
         gesamt_kollisionen |->
             IF kollision_aufgetreten THEN b.gesamt_kollisionen + 1
             ELSE b.gesamt_kollisionen,
         teilchen |->
             [ts EXCEPT ![ziel] =
                 EinfachGezaehlt(
                     [@ EXCEPT !.zustand =
                         <<Gespiegelt(z[1], b.x_min, b.x_max),
                           Gespiegelt(z[2], b.y_min, b.y_max),
                           Umgekehrt(z[3], z[1], b.x_min, b.x_max),
                           Umgekehrt(z[4], z[2], b.y_min, b.y_max)>>],
                     kollision_aufgetreten)]]

-----------------------------------------------------------------------------
(* simulation.py: the state of a Simulation and of the calls made on it     *)

VARIABLES
    teilchen,                  \* Simulation.teilchen: the particle list
    box,                       \* Simulation.box
    dt,                        \* Simulation.dt
    aktuelle_zeit,             \* Simulation.aktuelle_zeit
    schrittzaehler,            \* Simulation.schrittzaehler
    zeit_historie,             \* Simulation.zeit_historie
    energie_historie,          \* Simulation.energie_historie
    datenpuffer,               \* Simulation.datenverwalter.datenpuffer
    trajektorien_daten,        \* Datenverwalter.trajektorien_daten, row by row
    datei,                     \* the CSV file at ausgabedatei, as a list of rows
    gesamtzeit,                \* RK4Integrator.gesamtzeit
    zielzeit,                  \* integriere_bis_zeit: the target of the call
    pc,                        \* "bereit", or "schleife" inside schritt's loop
    i,                         \* schritt: index of the next particle of the loop
    urspruengliche_zustaende,  \* schritt: the states saved at line 119
    finale_zustaende,          \* schritt: the handler results collected so far
    aufruf,                    \* the last direct call of the handler or integrator
    aufrufzaehler              \* calls of schritt, or direct calls, made so far

vars == <<teilchen, box, dt, aktuelle_zeit, schrittzaehler, zeit_historie,
          energie_historie, datenpuffer, trajektorien_daten, datei, gesamtzeit,
          zielzeit, pc, i,
          urspruengliche_zustaende, finale_zustaende, aufruf, aufrufzaehler>>

\* Ticks of one run.
MaxSchritte == 2

\* Direct calls of the handler or of an integrator in one run.
MaxAufrufe == 2

\* The latest derivative evaluation of a call that is made to raise.
MaxFehlerstelle == 13

\* anfangszustaende handed to Simulation.__init__: rows [x, y, vx, vy].
Anfangszustaende ==
    { << <<99, 50, 20, 0>> >>,
      << <<95, 95, 10, 15>> >>,
      << <<96, 95, 10, 15>> >>,
      << <<50, 80, 1200, 0>> >>,
      << <<105, 50, 1, 0>> >>,
      << <<101, 50, -20, 0>> >>,
      << <<50, 2, 0, -3>> >>,
      << <<30, 90, 3, 0>>, <<60, 90, -3, 2>> >>,
      << <<99, 50, 2, 0>>, <<63, 50, 0, 0>> >>,
      << <<1, 45, 10, 0>>, <<99, 55, -10, 0>> >> }

\* dt handed to Simulation.__init__.
Zeitschritte == {Ganz(1), Halb}

KeinAufruf == [op |-> "keiner"]

\* Simulation.__init__
Init ==
    /\ \E a \in Anfangszustaende :
          teilchen = Liste([k \in DOMAIN a |->
                        NeuesTeilchen(Ganz(a[k][1]), Ganz(a[k][2]), Ganz(a[k][3]),
                                      Ganz(a[k][4]), MASSE, LADUNG)])
    /\ box = NeueBox(BOX_MIN_X, BOX_MAX_X, BOX_MIN_Y, BOX_MAX_Y)
    /\ dt \in Zeitschritte
    /\ aktuelle_zeit = Null
    /\ schrittzaehler = 0
    /\ zeit_historie = <<Null>>
    /\ energie_historie = <<berechne_gesamtenergie(teilchen)>>
    /\ datenpuffer = erfasse_zustand(<<>>, Null, berechne_gesamtenergie(teilchen), teilchen)
    /\ trajektorien_daten = datenpuffer
    /\ datei = <<>>
    /\ gesamtzeit = Null
    /\ zielzeit = Null
    /\ pc = "bereit"
    /\ i = 0
    /\ urspruengliche_zustaende = <<>>
    /\ finale_zustaende = <<>>
    /\ aufruf = KeinAufruf
    /\ aufrufzaehler = 0

\* Simulation.schritt, lines 118-122: the states are saved, the loop starts.
SchrittBeginn ==
    /\ pc = "bereit"
    /\ schrittzaehler < MaxSchritte
    /\ urspruengliche_zustaende' = Zustaende(teilchen)
    /\ finale_zustaende' = <<>>
    /\ i' = 1
    /\ pc' = "schleife"
    /\ aufrufzaehler' = aufrufzaehler + 1
    /\ UNCHANGED <<teilchen, box, dt, aktuelle_zeit, schrittzaehler,
                   zeit_historie, energie_historie, datenpuffer,
                   trajektorien_daten, datei, gesamtzeit, zielzeit, aufruf>>

\* Variant: a loop that commits every final state as soon as it is computed.
SchrittTeilchenSofort ==
    /\ pc = "schleife"
    /\ i <= Len(teilchen)
    /\ \E erg \in {behandle_wandkollision_exakt(box, teilchen, i, dt, -1)} :
          /\ teilchen' = [erg.teilchen EXCEPT ![i].zustand = erg.zustand]
          /\ box' = [box EXCEPT !.gesamt_kollisionen = erg.gesamt_kollisionen]
          /\ finale_zustaende' = Append(finale_zustaende, erg.zustand)
    /\ i' = i + 1
    /\ UNCHANGED <<dt, aktuelle_zeit, schrittzaehler, zeit_historie,
                   energie_historie, datenpuffer,
                   trajektorien_daten, datei, gesamtzeit, zielzeit, pc,
                   urspruengliche_zustaende, aufruf, aufrufzaehler>>

\* Simulation.schritt, lines 126-141: one pass of the loop, the handler call
\* for particle i.
SchrittTeilchen ==
    /\ pc = "schleife"
    /\ i <= Len(teilchen)
    /\ \E erg \in {behandle_wandkollision_exakt(box, teilchen, i, dt, -1)} :
          /\ teilchen' = erg.teilchen
          /\ box' = [box EXCEPT !.gesamt_kollisionen = erg.gesamt_kollisionen]
          /\ finale_zustaende' = Append(finale_zustaende, erg.zustand)
    /\ i' = i + 1
    /\ UNCHANGED <<dt, aktuelle_zeit, schrittzaehler, zeit_historie,
                   energie_historie, datenpuffer,
                   trajektorien_daten, datei, gesamtzeit, zielzeit, pc,
                   urspruengliche_zustaende, aufruf, aufrufzaehler>>

\* Lines 144-146: every particle takes its final state.
Uebernimm(ts, finale) ==
    Liste([k \in DOMAIN ts |-> aktualisiere_zustand(ts[k], finale[k])])

\* Lines 148-150: Box.erzwinge_grenzen for every particle.
ErzwingeGrenzen(b, ts) ==
    Liste([k \in DOMAIN ts |-> aktualisiere_zustand(ts[k], Geklemmt(b, ts[k].zustand))])

\* Simulation.schritt, lines 143-181: after the loop the final states are
\* committed as a batch, clamped, and time and step counter advance.
SchrittAbschluss ==
    /\ pc = "schleife"
    /\ i > Len(teilchen)
    /\ \E neue \in {ErzwingeGrenzen(box, Uebernimm(teilchen, finale_zustaende))} :
         \E aktuelle_energie \in {berechne_gesamtenergie(neue)} :
            /\ teilchen' = neue
            /\ energie_historie' = Append(energie_historie, aktuelle_energie)
            /\ datenpuffer' = erfasse_zustand(datenpuffer, Plus(aktuelle_zeit, dt),
                                              aktuelle_energie, neue)
            /\ trajektorien_daten' =
                  erfasse_zustand(trajektorien_daten, Plus(aktuelle_zeit, dt),
                                  aktuelle_energie, neue)
    /\ aktuelle_zeit' = Plus(aktuelle_zeit, dt)
    /\ schrittzaehler' = schrittzaehler + 1
    /\ zeit_historie' = Append(zeit_historie, Plus(aktuelle_zeit, dt))
    /\ pc' = "bereit"
    /\ i' = 0
    /\ urspruengliche_zustaende' = <<>>
    /\ finale_zustaende' = <<>>
    /\ UNCHANGED <<box, dt, aufruf, aufrufzaehler, datei, gesamtzeit, zielzeit>>

\* Lines 199-206: the provisional state is outside the box; the handler has
\* run for particle k (erg) and the particle takes the returned state at once.
BatchNachBehandlung(b, k, erg) ==
    [box |-> [b EXCEPT !.gesamt_kollisionen = erg.gesamt_kollisionen],
     teilchen |-> [erg.teilchen EXCEPT ![k] = aktualisiere_zustand(@, erg.zustand)]]

\* Variant: a particle that stays inside the box keeps its state.
BatchOhneUebernahme(t, vorlaeufiger_zustand) == t

\* Lines 207-209: no collision, the particle takes the provisional state.
BatchUebernahme(t, vorlaeufiger_zustand) ==
    aktualisiere_zustand(t, vorlaeufiger_zustand)

\* Lines 194-209: the body of the loop for particle k; the box and the
\* particle list as it leaves them.
BatchTeilchen(b, ts, h, k, vorlaeufiger_zustand) ==
    IF ~ist_innerhalb(b, Position(vorlaeufiger_zustand))
    THEN CHOOSE nach \in {BatchNachBehandlung(b, k, erg) :
                             erg \in {behandle_wandkollision_exakt(b, ts, k, h, -1)}} :
            TRUE
    ELSE [box |-> b,
          teilchen |-> [ts EXCEPT ![k] = BatchUebernahme(@, vorlaeufiger_zustand)]]

RECURSIVE BatchSchleife(_, _, _, _, _, _)
\* Lines 193-209: the loop over the particles from particle k on; every
\* particle is updated in place before the next one is looked at.
BatchSchleife(b, ts, h, urspr, inkremente, k) ==
    IF k > Len(ts)
    THEN [teilchen |-> ts, gesamt_kollisionen |-> b.gesamt_kollisionen]
    ELSE CHOOSE ende \in
            {BatchSchleife(nach.box, nach.teilchen, h, urspr, inkremente, k + 1) :
                nach \in {BatchTeilchen(b, ts, h, k,
                                        VPlus(urspr[k], inkremente[k]))}} :
            TRUE

\* Simulation.schritt_alternativ_batch, lines 189-209: inkremente are the
\* increments of the one system step for all particles (line 190), then the
\* loop.  Result: the particle list and the box counter as the loop leaves
\* them.
schritt_alternativ_batch(b, ts, h, inkremente) ==
    BatchSchleife(b, ts, h, Zustaende(ts), inkremente, 1)

\* Simulation.schritt_alternativ_batch as one step of the simulation (lines
\* 183-227): the loop, then time, step counter, energy and data row.
SchrittAlternativBatch ==
    /\ pc = "bereit"
    /\ schrittzaehler < MaxSchritte
    /\ \E inkremente \in {rk4_schritt_system(teilchen, dt, -1).inkremente} :
       \E erg \in {schritt_alternativ_batch(box, teilchen, dt, inkremente)} :
         \E aktuelle_energie \in {berechne_gesamtenergie(erg.teilchen)} :
            /\ teilchen' = erg.teilchen
            /\ box' = [box EXCEPT !.gesamt_kollisionen = erg.gesamt_kollisionen]
            /\ energie_historie' = Append(energie_historie, aktuelle_energie)
            /\ datenpuffer' = erfasse_zustand(datenpuffer, Plus(aktuelle_zeit, dt),
                                              aktuelle_energie, erg.teilchen)
            /\ trajektorien_daten' =
                  erfasse_zustand(trajektorien_daten, Plus(aktuelle_zeit, dt),
                                  aktuelle_energie, erg.teilchen)
    /\ aktuelle_zeit' = Plus(aktuelle_zeit, dt)
    /\ schrittzaehler' = schrittzaehler + 1
    /\ zeit_historie' = Append(zeit_historie, Plus(aktuelle_zeit, dt))
    /\ aufrufzaehler' = aufrufzaehler + 1
    /\ UNCHANGED <<dt, pc, i, urspruengliche_zustaende, finale_zustaende, aufruf,
                   datei, gesamtzeit, zielzeit>>

Next == SchrittBeginn \/ SchrittTeilchen \/ SchrittAbschluss \/ SchrittAlternativBatch

Spec == Init /\ [][Next]_vars

-----------------------------------------------------------------------------
(* Direct calls of Box.behandle_wandkollision_exakt on the particles and   *)
(* the box of a Simulation, as the loop of schritt makes them: the target   *)
(* is alle_teilchen[teilchen_index].                                        *)

\* Evaluation budgets of a call: -1 never raises.
Fehlerstellen == {-1} \cup (0 .. MaxFehlerstelle)

\* One call of the handler for particle ziel.  Beside the result on the box
\* itself the call is evaluated on a twin box that differs only in
\* gesamt_kollisionen (0, as after Box.__init__).
RufeBehandle ==
    /\ pc = "bereit"
    /\ aufrufzaehler < MaxAufrufe
    /\ \E ziel \in DOMAIN teilchen, fehler \in Fehlerstellen :
         \E erg \in {behandle_wandkollision_exakt(box, teilchen, ziel, dt, fehler)},
            zwilling \in {behandle_wandkollision_exakt(
                             [box EXCEPT !.gesamt_kollisionen = 0],
                             teilchen, ziel, dt, fehler)} :
            /\ aufruf' = [op |-> "behandle_wandkollision_exakt",
                          teilchen_index |-> ziel, fehler |-> fehler,
                          vorher |-> Zustaende(teilchen),
                          kollisionen_vorher |-> box.gesamt_kollisionen,
                          zaehler_vorher |->
                              Liste([k \in DOMAIN teilchen |->
                                       teilchen[k].kollisionszaehler]),
                          ergebnis |-> erg,
                          zwilling |-> [ok |-> zwilling.ok,
                                        zustand |-> zwilling.zustand,
                                        tiefe |-> zwilling.tiefe]]
            /\ teilchen' = erg.teilchen
            /\ box' = [box EXCEPT !.gesamt_kollisionen = erg.gesamt_kollisionen]
            /\ pc' = IF erg.ok THEN "zurueck" ELSE "abgebrochen"
    /\ aufrufzaehler' = aufrufzaehler + 1
    /\ UNCHANGED <<dt, aktuelle_zeit, schrittzaehler, zeit_historie,
                   energie_historie, datenpuffer,
                   trajektorien_daten, datei, gesamtzeit, zielzeit, i, urspruengliche_zustaende,
                   finale_zustaende>>

\* The caller applies the returned state to the target (simulation.py 145-146)
\* and clamps it (149-150).
WendeErgebnisAn ==
    /\ pc = "zurueck"
    /\ teilchen' = ErzwingeGrenzen(box,
                      SetzeZiel(teilchen, aufruf.teilchen_index,
                                aufruf.ergebnis.zustand))
    /\ pc' = "bereit"
    /\ UNCHANGED <<box, dt, aktuelle_zeit, schrittzaehler, zeit_historie,
                   energie_historie, datenpuffer,
                   trajektorien_daten, datei, gesamtzeit, zielzeit, i, urspruengliche_zustaende,
                   finale_zustaende, aufruf, aufrufzaehler>>

\* One call of the simple handler for particle ziel.
RufeEinfach ==
    /\ pc = "bereit"
    /\ aufrufzaehler < MaxAufrufe
    /\ \E ziel \in DOMAIN teilchen :
         \E erg \in {pruefe_und_behandle_kollisionen_einfach(box, teilchen, ziel)} :
            /\ aufruf' = [op |-> "pruefe_und_behandle_kollisionen_einfach",
                          teilchen_index |-> ziel,
                          vorher |-> Zustaende(teilchen),
                          kollisionen_vorher |-> box.gesamt_kollisionen,
                          zaehler_vorher |->
                              Liste([k \in DOMAIN teilchen |->
                                       teilchen[k].kollisionszaehler]),
                          ergebnis |-> erg.kollision_aufgetreten]
            /\ teilchen' = erg.teilchen
            /\ box' = [box EXCEPT !.gesamt_kollisionen = erg.gesamt_kollisionen]
    /\ aufrufzaehler' = aufrufzaehler + 1
    /\ UNCHANGED <<dt, aktuelle_zeit, schrittzaehler, zeit_historie,
                   energie_historie, datenpuffer,
                   trajektorien_daten, datei, gesamtzeit, zielzeit, pc, i, urspruengliche_zustaende,
                   finale_zustaende>>

NextBox == RufeBehandle \/ WendeErgebnisAn \/ RufeEinfach

SpecBox == Init /\ [][NextBox]_vars

\* Handler calls at the edge of the argument range: particles that start
\* outside the box or on a wall, and step sizes that are zero or negative.
Randlagen ==
    { << <<105, 50, 1, 0>> >>,
      << <<101, 50, -20, 0>> >>,
      << <<50, -5, 0, -3>> >>,
      << <<100, 50, 20, 0>> >> }

Randschritte == {Ganz(1), Halb, Null, Neg(Halb)}

InitRand ==
    /\ \E a \in Randlagen :
          teilchen = Liste([k \in DOMAIN a |->
                        NeuesTeilchen(Ganz(a[k][1]), Ganz(a[k][2]), Ganz(a[k][3]),
                                      Ganz(a[k][4]), MASSE, LADUNG)])
    /\ box = NeueBox(BOX_MIN_X, BOX_MAX_X, BOX_MIN_Y, BOX_MAX_Y)
    /\ dt \in Randschritte
    /\ aktuelle_zeit = Null
    /\ schrittzaehler = 0
    /\ zeit_historie = <<Null>>
    /\ energie_historie = <<>>
    /\ datenpuffer = <<>>
    /\ trajektorien_daten = <<>>
    /\ datei = <<>>
    /\ gesamtzeit = Null
    /\ zielzeit = Null
    /\ pc = "bereit"
    /\ i = 0
    /\ urspruengliche_zustaende = <<>>
    /\ finale_zustaende = <<>>
    /\ aufruf = KeinAufruf
    /\ aufrufzaehler = 0

SpecRand == InitRand /\ [][NextBox]_vars

-----------------------------------------------------------------------------
(* Direct calls of rk4_schritt_einzeln and rk4_schritt_system on a particle *)
(* list.                                                                    *)

\* Particle lists handed to the integrators: rows [x, y, vx, vy, masse, ladung].
RK4Aufstellungen ==
    { << <<0, 0, 0, 0, 1, 0>> >>,
      << <<5, 7, 3, -2, 1, 0>> >>,
      << <<50, 50, -4, 6, 2, 0>> >>,
      << <<50, 50, 1, 1, 1, 50>> >>,
      << <<10, 50, 3, 0, 1, 50>>, <<20, 50, -3, 2, 1, 50>> >>,
      << <<10, 10, 0, 0, 1, 50>>, <<13, 14, 1, 0, 2, -50>> >>,
      << <<10, 10, 1, 2, 1, 0>>, <<13, 14, 1, 0, 1, 50>> >>,
      << <<30, 50, 1, 0, 1, 50>>, <<40, 50, 0, 0, 2, 50>>,
         <<40, 60, 0, -1, 1, -50>> >> }

\* Step sizes handed to the integrators.
RK4Zeitschritte == {Null, Ganz(1), Halb, Ganz(-1), <<1, 4>>, Ganz(2)}

\* Evaluation budgets of one integrator call.
RK4Fehlerstellen == -1 .. 3

InitRK4 ==
    /\ \E a \in RK4Aufstellungen :
          teilchen = Liste([k \in DOMAIN a |->
                        NeuesTeilchen(Ganz(a[k][1]), Ganz(a[k][2]), Ganz(a[k][3]),
                                      Ganz(a[k][4]), Ganz(a[k][5]), Ganz(a[k][6]))])
    /\ box = NeueBox(BOX_MIN_X, BOX_MAX_X, BOX_MIN_Y, BOX_MAX_Y)
    /\ dt \in RK4Zeitschritte
    /\ aktuelle_zeit = Null
    /\ schrittzaehler = 0
    /\ zeit_historie = <<Null>>
    /\ energie_historie = <<>>
    /\ datenpuffer = <<>>
    /\ trajektorien_daten = <<>>
    /\ datei = <<>>
    /\ gesamtzeit = Null
    /\ zielzeit = Null
    /\ pc = "bereit"
    /\ i = 0
    /\ urspruengliche_zustaende = <<>>
    /\ finale_zustaende = <<>>
    /\ aufruf = KeinAufruf
    /\ aufrufzaehler = 0

\* One call of rk4_schritt_einzeln for particle ziel.
RufeEinzeln ==
    /\ pc = "bereit"
    /\ aufrufzaehler < MaxAufrufe
    /\ \E ziel \in DOMAIN teilchen, fehler \in RK4Fehlerstellen :
         \E erg \in {rk4_schritt_einzeln(teilchen, ziel, dt, fehler)} :
            /\ aufruf' = [op |-> "rk4_schritt_einzeln", teilchen_index |-> ziel,
                          fehler |-> fehler, vorher |-> Zustaende(teilchen),
                          ergebnis |-> erg]
            /\ teilchen' = erg.teilchen
            /\ pc' = IF erg.ok THEN "zurueck" ELSE "bereit"
    /\ aufrufzaehler' = aufrufzaehler + 1
    /\ UNCHANGED <<box, dt, aktuelle_zeit, schrittzaehler, zeit_historie,
                   energie_historie, datenpuffer,
                   trajektorien_daten, datei, gesamtzeit, zielzeit, i, urspruengliche_zustaende,
                   finale_zustaende>>

\* One call of rk4_schritt_system.
RufeSystem ==
    /\ pc = "bereit"
    /\ aufrufzaehler < MaxAufrufe
    /\ \E fehler \in RK4Fehlerstellen :
         \E erg \in {rk4_schritt_system(teilchen, dt, fehler)} :
            /\ aufruf' = [op |-> "rk4_schritt_system", teilchen_index |-> 0,
                          fehler |-> fehler, vorher |-> Zustaende(teilchen),
                          ergebnis |-> erg]
            /\ teilchen' = erg.teilchen
            /\ pc' = IF erg.ok THEN "zurueck" ELSE "bereit"
    /\ aufrufzaehler' = aufrufzaehler + 1
    /\ UNCHANGED <<box, dt, aktuelle_zeit, schrittzaehler, zeit_historie,
                   energie_historie, datenpuffer,
                   trajektorien_daten, datei, gesamtzeit, zielzeit, i, urspruengliche_zustaende,
                   finale_zustaende>>

\* One call of berechne_system_kraefte_symmetrisch; it reads the particles
\* and writes nothing.
RufeKraefte ==
    /\ pc = "bereit"
    /\ aufrufzaehler < MaxAufrufe
    /\ aufruf' = [op |-> "berechne_system_kraefte_symmetrisch",
                  teilchen_index |-> 0, fehler |-> -1,
                  vorher |-> Zustaende(teilchen),
                  ergebnis |-> [ok |-> TRUE,
                                kraefte |-> berechne_system_kraefte_symmetrisch(teilchen),
                                paare |-> Paarauswertungen(teilchen)]]
    /\ aufrufzaehler' = aufrufzaehler + 1
    /\ UNCHANGED <<teilchen, box, dt, aktuelle_zeit, schrittzaehler,
                   zeit_historie, energie_historie, datenpuffer,
                   trajektorien_daten, datei, gesamtzeit, zielzeit, pc, i,
                   urspruengliche_zustaende, finale_zustaende>>

\* The caller adds the returned increments to the states
\* (RK4Integrator.integriere_bis_zeit, lines 266-268; for a single-particle
\* call, the increment of that particle).
WendeInkrementeAn ==
    /\ pc = "zurueck"
    /\ teilchen' =
          IF aufruf.op = "rk4_schritt_system"
          THEN Liste([k \in DOMAIN teilchen |->
                       aktualisiere_zustand(teilchen[k],
                           VPlus(teilchen[k].zustand, aufruf.ergebnis.inkremente[k]))])
          ELSE SetzeZiel(teilchen, aufruf.teilchen_index,
                         VPlus(teilchen[aufruf.teilchen_index].zustand,
                               aufruf.ergebnis.inkrement))
    /\ pc' = "bereit"
    /\ UNCHANGED <<box, dt, aktuelle_zeit, schrittzaehler, zeit_historie,
                   energie_historie, datenpuffer,
                   trajektorien_daten, datei, gesamtzeit, zielzeit, i, urspruengliche_zustaende,
                   finale_zustaende, aufruf, aufrufzaehler>>

NextRK4 == RufeEinzeln \/ RufeSystem \/ RufeKraefte \/ WendeInkrementeAn

SpecRK4 == InitRK4 /\ [][NextRK4]_vars

-----------------------------------------------------------------------------
(* Direct calls of berechne_coulombkraft_zwischen on two particles a few    *)
(* min_abstand apart; positions in units of min_abstand.                    *)

\* Position of the second particle relative to the first, as <<n, d>> pairs.
Nahlagen ==
    { <<Null, Null>>, << <<1, 20000>>, Null>>, <<Halb, Null>>,
      << <<3, 10>>, <<2, 5>> >>, << <<9, 10>>, Null>>, <<Ganz(1), Null>>,
      <<Null, Ganz(-1)>>, << <<3, 5>>, <<4, 5>> >>, << <<11, 10>>, Null>>,
      <<Ganz(2), Null>>, <<Ganz(-3), Ganz(4)>> }

Nahladungen == {-2, -1, 0, 1, 2}

InitNah ==
    /\ \E lage \in Nahlagen, q1 \in Nahladungen, q2 \in Nahladungen :
          teilchen = << NeuesTeilchen(Null, Null, Null, Null, MASSE, Ganz(q1)),
                        NeuesTeilchen(lage[1], lage[2], Null, Null, MASSE, Ganz(q2)) >>
    /\ box = NeueBox(BOX_MIN_X, BOX_MAX_X, BOX_MIN_Y, BOX_MAX_Y)
    /\ dt = Null
    /\ aktuelle_zeit = Null
    /\ schrittzaehler = 0
    /\ zeit_historie = <<Null>>
    /\ energie_historie = <<>>
    /\ datenpuffer = <<>>
    /\ trajektorien_daten = <<>>
    /\ datei = <<>>
    /\ gesamtzeit = Null
    /\ zielzeit = Null
    /\ pc = "bereit"
    /\ i = 0
    /\ urspruengliche_zustaende = <<>>
    /\ finale_zustaende = <<>>
    /\ aufruf = KeinAufruf
    /\ aufrufzaehler = 0

\* One call of berechne_coulombkraft_zwischen(teilchen[a], teilchen[b]).
RufeCoulomb ==
    /\ pc = "bereit"
    /\ aufrufzaehler < MaxAufrufe
    /\ \E a \in DOMAIN teilchen, b \in DOMAIN teilchen :
          /\ a # b
          /\ aufruf' = [op |-> "berechne_coulombkraft_zwischen",
                        teilchen_index |-> a, fehler |-> -1,
                        vorher |-> Zustaende(teilchen),
                        ergebnis |-> coulombkraft_betrag(teilchen[a], teilchen[b])]
    /\ aufrufzaehler' = aufrufzaehler + 1
    /\ UNCHANGED <<teilchen, box, dt, aktuelle_zeit, schrittzaehler,
                   zeit_historie, energie_historie, datenpuffer,
                   trajektorien_daten, datei, gesamtzeit, zielzeit, pc, i,
                   urspruengliche_zustaende, finale_zustaende>>

NextNah == RufeCoulomb

SpecNah == InitNah /\ [][NextNah]_vars

-----------------------------------------------------------------------------
(* Construction of boxes and particles and direct calls of                  *)
(* Teilchen.aktualisiere_zustand, as a caller of the classes makes them.    *)

\* Bounds handed to Box.__init__.
Boxgrenzen == {Null, Ganz(50), Ganz(100)}

\* Masses and charges handed to Teilchen.__init__ (<<>> is None).
Massenwahl == {<<>>, <<Ganz(2)>>, <<Null>>, <<Ganz(-1)>>}

Ladungswahl == {<<>>, <<Ganz(-50)>>}

\* Vectors handed to aktualisiere_zustand.
Zustandsvektoren ==
    { <<>>, <<Ganz(1), Ganz(2), Ganz(3)>>, <<Ganz(1), Ganz(2), Ganz(3), Ganz(4)>>,
      <<Ganz(1), Ganz(2), Ganz(3), Ganz(4), Ganz(5)>> }

InitBau ==
    /\ teilchen = <<>>
    /\ box = NeueBox(BOX_MIN_X, BOX_MAX_X, BOX_MIN_Y, BOX_MAX_Y)
    /\ dt = Null
    /\ aktuelle_zeit = Null
    /\ schrittzaehler = 0
    /\ zeit_historie = <<Null>>
    /\ energie_historie = <<>>
    /\ datenpuffer = <<>>
    /\ trajektorien_daten = <<>>
    /\ datei = <<>>
    /\ gesamtzeit = Null
    /\ zielzeit = Null
    /\ pc = "bereit"
    /\ i = 0
    /\ urspruengliche_zustaende = <<>>
    /\ finale_zustaende = <<>>
    /\ aufruf = KeinAufruf
    /\ aufrufzaehler = 0

\* Box(x_min, x_max, y_min, y_max): the caller keeps the new box if the
\* constructor returns.
ErzeugeBox ==
    /\ aufrufzaehler < MaxAufrufe
    /\ \E xa \in Boxgrenzen, xb \in Boxgrenzen, ya \in Boxgrenzen, yb \in Boxgrenzen :
         \E erg \in {Box_init(xa, xb, ya, yb)} :
            /\ aufruf' = [op |-> "Box.__init__", argumente |-> <<xa, xb, ya, yb>>,
                          ergebnis |-> erg]
            /\ box' = IF erg.ok THEN erg.box ELSE box
    /\ aufrufzaehler' = aufrufzaehler + 1
    /\ UNCHANGED <<teilchen, dt, aktuelle_zeit, schrittzaehler, zeit_historie,
                   energie_historie, datenpuffer,
                   trajektorien_daten, datei, gesamtzeit, zielzeit, pc, i,
                   urspruengliche_zustaende, finale_zustaende>>

\* Teilchen(x, y, vx, vy, masse, ladung): the caller appends the new particle
\* to its list if the constructor returns.
ErzeugeTeilchen ==
    /\ aufrufzaehler < MaxAufrufe
    /\ \E masse \in Massenwahl, ladung \in Ladungswahl :
         \E erg \in {Teilchen_init(Ganz(50), Ganz(50), Null, Null, masse, ladung)} :
            /\ aufruf' = [op |-> "Teilchen.__init__",
                          argumente |-> <<masse, ladung>>, ergebnis |-> erg]
            /\ teilchen' = IF erg.ok THEN Append(teilchen, erg.teilchen)
                           ELSE teilchen
    /\ aufrufzaehler' = aufrufzaehler + 1
    /\ UNCHANGED <<box, dt, aktuelle_zeit, schrittzaehler, zeit_historie,
                   energie_historie, datenpuffer,
                   trajektorien_daten, datei, gesamtzeit, zielzeit, pc, i,
                   urspruengliche_zustaende, finale_zustaende>>

\* teilchen[ziel].aktualisiere_zustand(argument); argument is the caller's
\* array, uebergeben its content at the time of the call.
RufeAktualisiereZustand ==
    /\ aufrufzaehler < MaxAufrufe
    /\ \E ziel \in DOMAIN teilchen, neuer_zustand \in Zustandsvektoren :
         \E erg \in {aktualisiere_zustand_aufruf(teilchen[ziel], neuer_zustand)} :
            /\ aufruf' = [op |-> "aktualisiere_zustand", teilchen_index |-> ziel,
                          vorher |-> Zustaende(teilchen),
                          uebergeben |-> neuer_zustand,
                          argument |-> neuer_zustand,
                          ergebnis |-> [ok |-> erg.ok, geteilt |-> erg.geteilt]]
            /\ teilchen' = [teilchen EXCEPT ![ziel] = erg.teilchen]
    /\ aufrufzaehler' = aufrufzaehler + 1
    /\ UNCHANGED <<box, dt, aktuelle_zeit, schrittzaehler, zeit_historie,
                   energie_historie, datenpuffer,
                   trajektorien_daten, datei, gesamtzeit, zielzeit, pc, i,
                   urspruengliche_zustaende, finale_zustaende>>

\* After the call the caller writes into the array it had passed; a particle
\* state that shares the array's storage changes with it.
SchreibeArgument ==
    /\ aufruf.op = "aktualisiere_zustand"
    /\ aufruf.argument = aufruf.uebergeben
    /\ \E k \in DOMAIN aufruf.argument :
         \E neu \in {[aufruf.argument EXCEPT ![k] = Plus(@, Ganz(7))]} :
            /\ aufruf' = [aufruf EXCEPT !.argument = neu]
            /\ teilchen' =
                  IF aufruf.ergebnis.geteilt
                  THEN [teilchen EXCEPT ![aufruf.teilchen_index] =
                           aktualisiere_zustand(@, neu)]
                  ELSE teilchen
    /\ UNCHANGED <<box, dt, aktuelle_zeit, schrittzaehler, zeit_historie,
                   energie_historie, datenpuffer,
                   trajektorien_daten, datei, gesamtzeit, zielzeit, pc, i,
                   urspruengliche_zustaende, finale_zustaende, aufrufzaehler>>

NextBau ==
    ErzeugeBox \/ ErzeugeTeilchen \/ RufeAktualisiereZustand \/ SchreibeArgument

SpecBau == InitBau /\ [][NextBau]_vars

-----------------------------------------------------------------------------
(* RK4Integrator.integriere_bis_zeit on a particle list.  The while loop is *)
(* one action per iteration; i counts the iterations of the call under way. *)

\* Iterations of the while loop followed within one call.
MaxIterationen == 5

\* Particles handed to integriere_bis_zeit: <<x, y, vx, vy, masse, ladung>>.
Integratoraufstellungen ==
    { << <<5, 7, 3, -2, 1, 0>> >>,
      << <<50, 50, -4, 6, 2, 0>> >>,
      << <<10, 10, 1, 2, 1, 0>>, <<13, 14, 1, 0, 1, 0>> >> }

\* dt handed to RK4Integrator.__init__.
Integratorschritte == {Ganz(1), Halb, Neg(Halb), Null}

\* zielzeit handed to integriere_bis_zeit.
Zielzeiten == {Null, Ganz(1), Ganz(-1), <<3, 4>>}

\* RK4Integrator.__init__ (lines 215-224).
InitInt ==
    /\ \E a \in Integratoraufstellungen :
          teilchen = Liste([k \in DOMAIN a |->
                        NeuesTeilchen(Ganz(a[k][1]), Ganz(a[k][2]), Ganz(a[k][3]),
                                      Ganz(a[k][4]), Ganz(a[k][5]), Ganz(a[k][6]))])
    /\ box = NeueBox(BOX_MIN_X, BOX_MAX_X, BOX_MIN_Y, BOX_MAX_Y)
    /\ dt \in Integratorschritte
    /\ aktuelle_zeit = Null
    /\ schrittzaehler = 0
    /\ zeit_historie = <<Null>>
    /\ energie_historie = <<>>
    /\ datenpuffer = <<>>
    /\ trajektorien_daten = <<>>
    /\ datei = <<>>
    /\ gesamtzeit = Null
    /\ zielzeit = Null
    /\ pc = "bereit"
    /\ i = 0
    /\ urspruengliche_zustaende = <<>>
    /\ finale_zustaende = <<>>
    /\ aufruf = KeinAufruf
    /\ aufrufzaehler = 0

\* Line 259: the loop condition abs(gesamtzeit - zielzeit) > EPSILON is false.
AmZiel(zeit, ziel) == ~GroesserEpsilon(Betrag(Minus(zeit, ziel)))

\* min(a, b)
Minimum(a, b) == IF Kleiner(b, a) THEN b ELSE a

\* Line 262: min(abs(dt), abs(verbleibende_zeit)) * sign(verbleibende_zeit).
dt_schritt(h, verbleibende_zeit) ==
    Mal(Minimum(Betrag(h), Betrag(verbleibende_zeit)),
        Ganz(Vorzeichen(verbleibende_zeit[1])))

\* Lines 267-268: every particle takes its state plus its increment.
WendeAn(ts, inkremente) ==
    Liste([k \in DOMAIN ts |->
             aktualisiere_zustand(ts[k], VPlus(ts[k].zustand, inkremente[k]))])

\* A call of integriere_bis_zeit begins.
RufeIntegriere ==
    /\ pc = "bereit"
    /\ aufrufzaehler < MaxAufrufe
    /\ zielzeit' \in Zielzeiten
    /\ aufruf' = [op |-> "integriere_bis_zeit", vorher |-> Zustaende(teilchen),
                  zeit_vorher |-> gesamtzeit, schritte |-> <<>>]
    /\ pc' = "zeitschleife"
    /\ i' = 0
    /\ aufrufzaehler' = aufrufzaehler + 1
    /\ UNCHANGED <<teilchen, box, dt, aktuelle_zeit, schrittzaehler, zeit_historie,
                   energie_historie, datenpuffer, trajektorien_daten, datei,
                   gesamtzeit, urspruengliche_zustaende, finale_zustaende>>

\* Lines 259-271: one iteration of the while loop.
IntegriereSchritt ==
    /\ pc = "zeitschleife"
    /\ ~AmZiel(gesamtzeit, zielzeit)
    /\ i < MaxIterationen
    /\ \E h \in {dt_schritt(dt, Minus(zielzeit, gesamtzeit))} :
         \E erg \in {rk4_schritt_system(teilchen, h, -1)} :
            /\ teilchen' = WendeAn(erg.teilchen, erg.inkremente)
            /\ gesamtzeit' = Plus(gesamtzeit, h)
            /\ aufruf' = [aufruf EXCEPT !.schritte = Append(@, h)]
    /\ schrittzaehler' = schrittzaehler + 1
    /\ i' = i + 1
    /\ UNCHANGED <<box, dt, aktuelle_zeit, zeit_historie, energie_historie,
                   datenpuffer, trajektorien_daten, datei, zielzeit, pc,
                   urspruengliche_zustaende, finale_zustaende, aufrufzaehler>>

\* Lines 259 and 276: the loop condition fails and the call returns.
IntegriereEnde ==
    /\ pc = "zeitschleife"
    /\ AmZiel(gesamtzeit, zielzeit)
    /\ pc' = "bereit"
    /\ UNCHANGED <<teilchen, box, dt, aktuelle_zeit, schrittzaehler, zeit_historie,
                   energie_historie, datenpuffer, trajektorien_daten, datei,
                   gesamtzeit, zielzeit, i, urspruengliche_zustaende,
                   finale_zustaende, aufruf, aufrufzaehler>>

NextInt == RufeIntegriere \/ IntegriereSchritt \/ IntegriereEnde

SpecInt == InitInt /\ [][NextInt]_vars

\* IntegriereSchritt is enabled: the loop condition holds in a call under way
\* (and the iteration is one the model follows).
KannWeiter ==
    pc = "zeitschleife" /\ ~AmZiel(gesamtzeit, zielzeit) /\ i < MaxIterationen

\* The loop is not suspended: a call under way takes its next iteration, and
\* returns when the loop condition fails.  IntegriereSchritt changes i
\* whenever it is enabled, and only finitely many iterations are followed, so
\* weak fairness of IntegriereSchritt is []<>~KannWeiter.
SpecIntFair == SpecInt /\ WF_vars(IntegriereEnde) /\ []<>~KannWeiter

-----------------------------------------------------------------------------
(* datenverwalter.py: direct calls of erfasse_zustand, speichern and        *)
(* speichern_inkrementell on one Datenverwalter.  datei is the CSV file at  *)
(* ausgabedatei as the list of its rows, <<>> while the file does not       *)
(* exist; a data row in the file is the row of the buffer it was written    *)
(* from.  trajektorien_daten holds, row by row, what the three lists of the *)
(* dictionary hold (zeit, energie and the particle states).                 *)

\* Calls of erfasse_zustand followed.
MaxDatensaetze == 3

\* Calls of speichern and speichern_inkrementell followed.
MaxSpeicherungen == 3

\* konstanten.py 69: N_TEILCHEN = len(ANFANGSZUSTAENDE), seven entries.
N_TEILCHEN == 7

\* str(teilchen_nr) for the particle numbers of the header.
Ziffern == <<"1", "2", "3", "4", "5", "6", "7", "8", "9">>

RECURSIVE Kopfspalten(_)
\* Datenverwalter._generiere_header (lines 57-77): t, E_total, then x, y,
\* vx, vy with the particle number for N_TEILCHEN particles.
Kopfspalten(n) ==
    IF n = 0 THEN <<"t", "E_total">>
    ELSE Kopfspalten(n - 1) \o <<"x" \o Ziffern[n], "y" \o Ziffern[n],
                                  "vx" \o Ziffern[n], "vy" \o Ziffern[n]>>

header == Kopfspalten(N_TEILCHEN)

\* zeit handed to erfasse_zustand.
Erfassungszeiten == {Null, Ganz(1)}

\* Datenverwalter.__init__ (lines 27-55), with one particle to record.
InitDaten ==
    /\ teilchen = <<NeuesTeilchen(Ganz(10), Ganz(20), Ganz(1), Ganz(2), MASSE, LADUNG)>>
    /\ box = NeueBox(BOX_MIN_X, BOX_MAX_X, BOX_MIN_Y, BOX_MAX_Y)
    /\ dt = Ganz(1)
    /\ aktuelle_zeit = Null
    /\ schrittzaehler = 0
    /\ zeit_historie = <<Null>>
    /\ energie_historie = <<>>
    /\ datenpuffer = <<>>
    /\ trajektorien_daten = <<>>
    /\ datei = <<>>
    /\ gesamtzeit = Null
    /\ zielzeit = Null
    /\ pc = "bereit"
    /\ i = 0
    /\ urspruengliche_zustaende = <<>>
    /\ finale_zustaende = <<>>
    /\ aufruf = KeinAufruf
    /\ aufrufzaehler = 0

\* Line 168: self.datenpuffer = [] after the rows were appended to the file.
PufferNachInkrement(puffer) == <<>>

\* Datenverwalter.speichern (lines 123-145): the file is opened for writing,
\* which empties it; the header and the rows of the buffer are written.
speichern(puffer) == <<header>> \o puffer

\* Datenverwalter.speichern_inkrementell (lines 147-171): the file is opened
\* for appending; the header is written if the file did not exist, then the
\* rows of the buffer.
speichern_inkrementell(inhalt, puffer) ==
    (IF inhalt = <<>> THEN <<header>> ELSE inhalt) \o puffer

\* One call of erfasse_zustand (lines 79-121).
RufeErfasse ==
    /\ pc = "bereit"
    /\ Len(trajektorien_daten) < MaxDatensaetze
    /\ \E zeit \in Erfassungszeiten :
          /\ datenpuffer' = erfasse_zustand(datenpuffer, zeit, Null, teilchen)
          /\ trajektorien_daten' = erfasse_zustand(trajektorien_daten, zeit, Null, teilchen)
    /\ aufruf' = [op |-> "erfasse_zustand"]
    /\ UNCHANGED <<teilchen, box, dt, aktuelle_zeit, schrittzaehler, zeit_historie,
                   energie_historie, datei, gesamtzeit, zielzeit, pc, i,
                   urspruengliche_zustaende, finale_zustaende, aufrufzaehler>>

\* One call of speichern_inkrementell.
RufeSpeichernInkrementell ==
    /\ pc = "bereit"
    /\ aufrufzaehler < MaxSpeicherungen
    /\ datei' = speichern_inkrementell(datei, datenpuffer)
    /\ datenpuffer' = PufferNachInkrement(datenpuffer)
    /\ aufruf' = [op |-> "speichern_inkrementell"]
    /\ aufrufzaehler' = aufrufzaehler + 1
    /\ UNCHANGED <<teilchen, box, dt, aktuelle_zeit, schrittzaehler, zeit_historie,
                   energie_historie, trajektorien_daten, gesamtzeit, zielzeit, pc, i,
                   urspruengliche_zustaende, finale_zustaende>>

\* One call of speichern.
RufeSpeichern ==
    /\ pc = "bereit"
    /\ aufrufzaehler < MaxSpeicherungen
    /\ datei' = speichern(datenpuffer)
    /\ aufruf' = [op |-> "speichern"]
    /\ aufrufzaehler' = aufrufzaehler + 1
    /\ UNCHANGED <<teilchen, box, dt, aktuelle_zeit, schrittzaehler, zeit_historie,
                   energie_historie, datenpuffer, trajektorien_daten, gesamtzeit,
                   zielzeit, pc, i, urspruengliche_zustaende, finale_zustaende>>

NextDaten == RufeErfasse \/ RufeSpeichernInkrementell \/ RufeSpeichern

SpecDaten == InitDaten /\ [][NextDaten]_vars

-----------------------------------------------------------------------------
(* Properties                                                               *)

BehandleAufruf == aufruf.op = "behandle_wandkollision_exakt"

EinzelnAufruf == aufruf.op = "rk4_schritt_einzeln"

SystemAufruf == aufruf.op = "rk4_schritt_system"

CoulombAufruf == aufruf.op = "berechne_coulombkraft_zwischen"

KraefteAufruf == aufruf.op = "berechne_system_kraefte_symmetrisch"

\* C1: after every completed Simulation.schritt every particle's position is
\* inside the box, bounds inclusive.
C1_NachSchrittInnerhalb ==
    (pc = "bereit" /\ schrittzaehler > 0) =>
        \A k \in DOMAIN teilchen : ist_innerhalb(box, Position(teilchen[k].zustand))

\* A tick has completed and left a particle exactly on the right wall.
C1_Zeuge ==
    /\ pc = "bereit"
    /\ schrittzaehler > 0
    /\ \E k \in DOMAIN teilchen : teilchen[k].zustand[1] = box.x_max

\* C2: the state returned by behandle_wandkollision_exakt has its position
\* inside the box, on every return path.
C2_RueckgabeInnerhalb ==
    (BehandleAufruf /\ aufruf.ergebnis.ok) =>
        ist_innerhalb(box, Position(aufruf.ergebnis.zustand))

\* A call returned through the recursion cap at its own level, with a state
\* that had to be clamped onto a wall.
C2_Zeuge ==
    /\ BehandleAufruf
    /\ pc = "zurueck"
    /\ aufruf.ergebnis.ausgang = "kappe"
    /\ aufruf.ergebnis.zustand[1] \in {box.x_min, box.x_max}

\* C3: inside the loop of Simulation.schritt, at the start of each handler
\* call, every particle holds its pre-tick state vector.
C3_StapelDisziplin ==
    pc = "schleife" => Zustaende(teilchen) = urspruengliche_zustaende

\* The handler call for the second particle is about to start after the first
\* particle's call returned a final state that differs from its pre-tick state.
C3_Zeuge ==
    /\ pc = "schleife"
    /\ i = 2
    /\ Len(teilchen) = 2
    /\ finale_zustaende[1] # urspruengliche_zustaende[1]

\* C4: on normal return from behandle_wandkollision_exakt every particle's
\* state vector equals its value before the call.
C4_ZustaendeUnveraendert ==
    (BehandleAufruf /\ pc = "zurueck") => Zustaende(teilchen) = aufruf.vorher

\* A call recursed once, returned a state different from the entry state, and
\* has not been applied yet.
C4_Zeuge ==
    /\ BehandleAufruf
    /\ pc = "zurueck"
    /\ aufruf.ergebnis.ausgang = "rekursion"
    /\ aufruf.ergebnis.tiefe = 2
    /\ aufruf.ergebnis.zustand # aufruf.vorher[aufruf.teilchen_index]

\* C5: rk4_schritt_einzeln leaves every particle with the state vector it had
\* before the call, on normal return and when a derivative evaluation raises.
C5_EinzelnStelltWiederHer ==
    (EinzelnAufruf /\ (pc = "zurueck" \/ ~aufruf.ergebnis.ok)) =>
        Zustaende(teilchen) = aufruf.vorher

\* A call on two particles raised at stage 3, after both had been moved.
C5_Zeuge ==
    /\ EinzelnAufruf
    /\ ~aufruf.ergebnis.ok
    /\ aufruf.ergebnis.ausgewertet = 3
    /\ Len(teilchen) = 2
    /\ ~IstNullschritt(dt)

\* C6: rk4_schritt_system leaves every particle's state vector at its pre-call
\* value on every exit, and a returning call returns one increment per
\* particle.
C6_SystemStelltWiederHer ==
    (SystemAufruf /\ (pc = "zurueck" \/ ~aufruf.ergebnis.ok)) =>
        /\ Zustaende(teilchen) = aufruf.vorher
        /\ aufruf.ergebnis.ok =>
              Len(aufruf.ergebnis.inkremente) = Len(teilchen)

\* A call on two particles returned two increments that are not zero.
C6_Zeuge ==
    /\ SystemAufruf
    /\ pc = "zurueck"
    /\ Len(teilchen) = 2
    /\ Len(aufruf.ergebnis.inkremente) = 2
    /\ \A k \in 1..2 : aufruf.ergebnis.inkremente[k] # Nullvektor4

\* The integrator call that raised was made while the target was set to the
\* reflected state: the remaining sub-step, or any call of a nested invocation.
ImReflektiertenZustand ==
    /\ BehandleAufruf
    /\ pc = "abgebrochen"
    /\ (aufruf.ergebnis.innen = "reststrecke" \/ aufruf.ergebnis.tiefe > 1)

\* C7: when an integrator call raises while the target is temporarily set to
\* the reflected state, the target holds its pre-call state vector when the
\* error reaches the caller.
C7_ZielNachFehlerWiederhergestellt ==
    ImReflektiertenZustand =>
        teilchen[aufruf.teilchen_index].zustand = aufruf.vorher[aufruf.teilchen_index]

\* C8: a top-level call nests at most MAX_KOLLISIONS_ITERATIONEN handler
\* invocations and ends on one of its return paths; when the cap stopped the
\* recursion the counter is at the cap and the clamped state is returned.
C8_HoechstensZehnTief ==
    BehandleAufruf =>
        /\ aufruf.ergebnis.tiefe \in 1 .. MAX_KOLLISIONS_ITERATIONEN
        /\ aufruf.zwilling.tiefe \in 1 .. MAX_KOLLISIONS_ITERATIONEN
        /\ aufruf.ergebnis.ausgang \in
              {"keine_kollision", "reflexion", "rekursion", "kappe", "grenzfall",
               "fehler"}
        /\ aufruf.ergebnis.innen = "kappe" =>
              /\ aufruf.ergebnis.ok
              /\ box.gesamt_kollisionen >= MAX_KOLLISIONS_ITERATIONEN
              /\ ist_innerhalb(box, Position(aufruf.ergebnis.zustand))

\* A call nested exactly MAX_KOLLISIONS_ITERATIONEN invocations and its
\* innermost invocation was stopped by the cap.
C8_Zeuge ==
    /\ BehandleAufruf
    /\ aufruf.ergebnis.tiefe = MAX_KOLLISIONS_ITERATIONEN
    /\ aufruf.ergebnis.innen = "kappe"

\* C9: two boxes that differ only in gesamt_kollisionen return the same state
\* and recurse equally deep for the same particle states and dt.
C9_KappeLokal ==
    BehandleAufruf =>
        /\ aufruf.ergebnis.ok = aufruf.zwilling.ok
        /\ aufruf.ergebnis.zustand = aufruf.zwilling.zustand
        /\ aufruf.ergebnis.tiefe = aufruf.zwilling.tiefe

\* The call was made on a single particle without charge and returned.
EinzelnesUngeladenes ==
    /\ aufruf.op \in {"rk4_schritt_einzeln", "rk4_schritt_system"}
    /\ aufruf.ergebnis.ok
    /\ Len(aufruf.vorher) = 1
    /\ teilchen[1].ladung = Null

\* C10: for a single particle without charge both integrators return the
\* increment <<vx*dt, vy*dt + g*dt^2/2, 0, g*dt>>.
C10_GleichfoermigBeschleunigt ==
    EinzelnesUngeladenes =>
        LET v == Geschwindigkeit(aufruf.vorher[1])
            inkrement == IF EinzelnAufruf THEN aufruf.ergebnis.inkrement
                         ELSE aufruf.ergebnis.inkremente[1]
        IN  inkrement =
                <<Mal(v[1], dt),
                  Plus(Mal(v[2], dt), Mal(Halb, Mal(GRAVITATION, Mal(dt, dt)))),
                  Null,
                  Mal(GRAVITATION, dt)>>

\* rk4_schritt_einzeln returned for a single moving particle without charge
\* and of mass 2, with a negative step.
C10_Zeuge ==
    /\ EinzelnesUngeladenes
    /\ EinzelnAufruf
    /\ pc = "zurueck"
    /\ teilchen[1].masse = Zwei
    /\ aufruf.vorher[1][3] # Null
    /\ aufruf.vorher[1][4] # Null
    /\ dt = Ganz(-1)

\* C11: for dt = 0 rk4_schritt_einzeln returns the zero 4-vector and
\* rk4_schritt_system a zero 4-vector for every particle, no derivative is
\* evaluated (so none can raise) and no particle state is written.
C11_NullschrittOhneWirkung ==
    ((EinzelnAufruf \/ SystemAufruf) /\ dt = Null) =>
        /\ aufruf.ergebnis.ok
        /\ aufruf.ergebnis.ausgewertet = 0
        /\ aufruf.ergebnis.geschrieben = 0
        /\ aufruf.ergebnis.fehler = aufruf.fehler
        /\ EinzelnAufruf => aufruf.ergebnis.inkrement = Nullvektor4
        /\ SystemAufruf =>
              /\ Len(aufruf.ergebnis.inkremente) = Len(aufruf.vorher)
              /\ \A k \in DOMAIN aufruf.vorher :
                    aufruf.ergebnis.inkremente[k] = Nullvektor4
        /\ pc = "zurueck" => Zustaende(teilchen) = aufruf.vorher

\* rk4_schritt_system was called with dt = 0 on two particles while the next
\* derivative evaluation would have raised.
C11_Zeuge ==
    /\ SystemAufruf
    /\ dt = Null
    /\ aufruf.fehler = 0
    /\ Len(aufruf.vorher) = 2
    /\ pc = "zurueck"

\* C12: berechne_system_kraefte_symmetrisch evaluates every unordered pair of
\* particles exactly once, and the returned net forces sum to the sum of the
\* particles' gravity forces, whose x-component is zero.
C12_KraefteSummeGleichGravitation ==
    KraefteAufruf =>
        /\ \A a \in DOMAIN teilchen, b \in DOMAIN teilchen :
              a # b =>
                 Cardinality({p \in aufruf.ergebnis.paare :
                                 {p[1], p[2]} = {a, b}}) = 1
        /\ \A p \in aufruf.ergebnis.paare : p[1] # p[2]
        /\ Len(aufruf.ergebnis.kraefte) = Len(teilchen)
        /\ Vektorsumme(aufruf.ergebnis.kraefte, Len(teilchen)) =
              Vektorsumme(Gravitationskraefte(teilchen), Len(teilchen))
        /\ Vektorsumme(aufruf.ergebnis.kraefte, Len(teilchen))[1] = Null

\* The forces of three charged particles were computed, and the first
\* particle feels a horizontal Coulomb force.
C12_Zeuge ==
    /\ KraefteAufruf
    /\ Len(teilchen) = 3
    /\ Cardinality(aufruf.ergebnis.paare) = 3
    /\ aufruf.ergebnis.kraefte[1][1] # Null

\* The total x-momentum carried by a list of increments: sum of m_i * dvx_i.
RECURSIVE ImpulsX(_, _, _)
ImpulsX(ts, inkremente, n) ==
    IF n = 0 THEN Null
    ELSE Plus(ImpulsX(ts, inkremente, n - 1),
              Mal(ts[n].masse, inkremente[n][3]))

C14_KeinSprungAnDerSchwelle ==
    (CoulombAufruf /\ aufruf.ergebnis.r_quadrat = MinAbstandQuadrat) =>
        /\ aufruf.ergebnis.zweig = "normal"
        /\ aufruf.ergebnis.betrag_quadrat =
              WeichkernBetragQuadrat(aufruf.ergebnis.ladungen,
                                     aufruf.ergebnis.r_quadrat)

BoxBau == aufruf.op = "Box.__init__"

\* C16: Box construction raises exactly when x_max - x_min <= 0 or
\* y_max - y_min <= 0, zero width or height included; otherwise it returns a
\* box with the given bounds and gesamt_kollisionen = 0.
C16_BoxBauFehlerGenauBeiNichtPositiv ==
    BoxBau =>
        /\ ~aufruf.ergebnis.ok <=>
              \/ KleinerGleich(Minus(aufruf.argumente[2], aufruf.argumente[1]), Null)
              \/ KleinerGleich(Minus(aufruf.argumente[4], aufruf.argumente[3]), Null)
        /\ aufruf.ergebnis.ok =>
              /\ aufruf.ergebnis.box.gesamt_kollisionen = 0
              /\ box = aufruf.ergebnis.box
              /\ <<box.x_min, box.x_max, box.y_min, box.y_max>> = aufruf.argumente

\* A box of zero width and positive height was refused.
C16_Zeuge ==
    /\ BoxBau
    /\ ~aufruf.ergebnis.ok
    /\ aufruf.argumente[1] = aufruf.argumente[2]
    /\ Kleiner(aufruf.argumente[3], aufruf.argumente[4])

TeilchenBau == aufruf.op = "Teilchen.__init__"

\* C17: constructing a particle with non-positive mass fails, so no particle
\* with mass <= 0 exists.
C17_KeineNichtPositiveMasse ==
    /\ (TeilchenBau /\ aufruf.argumente[1] # <<>>
                    /\ KleinerGleich(aufruf.argumente[1][1], Null)) =>
           ~aufruf.ergebnis.ok
    /\ \A k \in DOMAIN teilchen : Kleiner(Null, teilchen[k].masse)

SetzeAufruf == aufruf.op = "aktualisiere_zustand"

\* C18: aktualisiere_zustand given a vector whose length is not 4 raises and
\* leaves the particle's state vector unchanged; given a vector of length 4
\* it replaces the whole state by a copy of that vector, which later writes
\* to the caller's vector do not reach.
C18_LaengeVierOderFehler ==
    SetzeAufruf =>
        /\ \A k \in DOMAIN teilchen :
              k # aufruf.teilchen_index => teilchen[k].zustand = aufruf.vorher[k]
        /\ Len(aufruf.uebergeben) # 4 =>
              /\ ~aufruf.ergebnis.ok
              /\ teilchen[aufruf.teilchen_index].zustand =
                    aufruf.vorher[aufruf.teilchen_index]
        /\ Len(aufruf.uebergeben) = 4 =>
              /\ aufruf.ergebnis.ok
              /\ teilchen[aufruf.teilchen_index].zustand = aufruf.uebergeben

\* A 4-vector different from the old state was set, and the caller has since
\* overwritten a component of its own vector.
C18_Zeuge ==
    /\ SetzeAufruf
    /\ aufruf.ergebnis.ok
    /\ aufruf.uebergeben # aufruf.vorher[aufruf.teilchen_index]
    /\ aufruf.argument # aufruf.uebergeben

\* C19: after n calls of Simulation.schritt on a new simulation,
\* schrittzaehler = n, aktuelle_zeit = n * dt, and energie_historie,
\* zeit_historie and the data manager's rows hold n + 1 entries each.
C19_ZaehlerUndHistorien ==
    pc = "bereit" =>
        /\ schrittzaehler = aufrufzaehler
        /\ aktuelle_zeit = Mal(Ganz(aufrufzaehler), dt)
        /\ Len(energie_historie) = aufrufzaehler + 1
        /\ Len(zeit_historie) = aufrufzaehler + 1
        /\ Len(datenpuffer) = aufrufzaehler + 1

\* Two ticks of two particles at dt = 1/2 have completed.
C19_Zeuge ==
    /\ pc = "bereit"
    /\ aufrufzaehler = 2
    /\ Len(teilchen) = 2
    /\ dt = Halb
    /\ aktuelle_zeit = Ganz(1)
    /\ Len(datenpuffer[3]) = 10

\* The last handler call reached step 5 with a wall.
WandGetroffen ==
    /\ BehandleAufruf
    /\ "stufe5" \in DOMAIN aufruf.ergebnis
    /\ aufruf.ergebnis.stufe5.wand # "keine"

\* C20: when a wall is struck, the handler negates exactly the velocity
\* component normal to that wall (vx for left/right, vy for bottom/top),
\* keeps the other velocity component and the position of the collision
\* instant, and adds exactly 1 to the particle's kollisionszaehler and to the
\* box's gesamt_kollisionen at that handler level.
C20_ReflexionNurNormalkomponente ==
    WandGetroffen =>
        /\ Position(aufruf.ergebnis.stufe5.reflektierter_zustand) =
              Position(aufruf.ergebnis.stufe5.zustand_bei_kollision)
        /\ aufruf.ergebnis.stufe5.wand \in {"links", "rechts"} =>
              /\ aufruf.ergebnis.stufe5.reflektierter_zustand[3] =
                    Neg(aufruf.ergebnis.stufe5.zustand_bei_kollision[3])
              /\ aufruf.ergebnis.stufe5.reflektierter_zustand[4] =
                    aufruf.ergebnis.stufe5.zustand_bei_kollision[4]
        /\ aufruf.ergebnis.stufe5.wand \in {"unten", "oben"} =>
              /\ aufruf.ergebnis.stufe5.reflektierter_zustand[4] =
                    Neg(aufruf.ergebnis.stufe5.zustand_bei_kollision[4])
              /\ aufruf.ergebnis.stufe5.reflektierter_zustand[3] =
                    aufruf.ergebnis.stufe5.zustand_bei_kollision[3]
        /\ aufruf.ergebnis.stufe5.wand \in {"links", "rechts", "unten", "oben"}
        /\ aufruf.ergebnis.stufe5.gesamt_kollisionen =
              aufruf.ergebnis.stufe5.gesamt_kollisionen_vorher + 1
        /\ aufruf.ergebnis.stufe5.gesamt_kollisionen_vorher =
              aufruf.kollisionen_vorher
        /\ aufruf.ergebnis.stufe5.kollisionszaehler =
              aufruf.ergebnis.stufe5.kollisionszaehler_vorher + 1

\* A particle moving up and to the right struck the right wall, and the call
\* went on to a second collision in a recursive invocation.
C20_Zeuge ==
    /\ WandGetroffen
    /\ aufruf.ergebnis.ok
    /\ aufruf.ergebnis.stufe5.wand = "rechts"
    /\ aufruf.ergebnis.stufe5.zustand_bei_kollision[3] # Null
    /\ aufruf.ergebnis.stufe5.zustand_bei_kollision[4] # Null
    /\ aufruf.ergebnis.tiefe = 2

\* The last handler call returned.
BehandleZurueck == BehandleAufruf /\ pc = "zurueck"

\* C21: if the unconstrained RK4 end position is inside the box,
\* behandle_wandkollision_exakt returns start state + full-step increment, no
\* velocity is negated, and neither the particle's nor the box's collision
\* counter changes.
C21_OhneKollisionNurVollschritt ==
    BehandleZurueck =>
        \E voll \in {rk4_schritt_einzeln(teilchen, aufruf.teilchen_index, dt, -1)} :
           ist_innerhalb(box, Position(VPlus(aufruf.vorher[aufruf.teilchen_index],
                                             voll.inkrement))) =>
              /\ aufruf.ergebnis.zustand =
                    VPlus(aufruf.vorher[aufruf.teilchen_index], voll.inkrement)
              /\ aufruf.ergebnis.ausgang = "keine_kollision"
              /\ aufruf.ergebnis.tiefe = 1
              /\ "stufe5" \notin DOMAIN aufruf.ergebnis
              /\ box.gesamt_kollisionen = aufruf.kollisionen_vorher
              /\ \A k \in DOMAIN teilchen :
                    /\ teilchen[k].kollisionszaehler = aufruf.zaehler_vorher[k]
                    /\ teilchen[k].zustand = aufruf.vorher[k]

\* A moving particle of a two-particle system took a full step that ended
\* inside the box, in a box that had counted a collision before.
C21_Zeuge ==
    /\ BehandleZurueck
    /\ aufruf.ergebnis.ausgang = "keine_kollision"
    /\ Len(teilchen) = 2
    /\ aufruf.ergebnis.zustand # aufruf.vorher[aufruf.teilchen_index]
    /\ aufruf.kollisionen_vorher > 0

\* The walls that the straight line from (x0, y0) to (x1, y1) leaves the box
\* through, each with its interpolated fraction (wall - start)/(end - start).
GekreuzteWaende(b, x0, y0, x1, y1) ==
    {[wand |-> "links", t |-> Durch(Minus(b.x_min, x0), Minus(x1, x0))] :
        u \in {u \in {1} : Kleiner(x1, b.x_min)}}
    \cup {[wand |-> "rechts", t |-> Durch(Minus(b.x_max, x0), Minus(x1, x0))] :
        u \in {u \in {1} : Kleiner(b.x_max, x1)}}
    \cup {[wand |-> "unten", t |-> Durch(Minus(b.y_min, y0), Minus(y1, y0))] :
        u \in {u \in {1} : Kleiner(y1, b.y_min)}}
    \cup {[wand |-> "oben", t |-> Durch(Minus(b.y_max, y0), Minus(y1, y0))] :
        u \in {u \in {1} : Kleiner(b.y_max, y1)}}

\* The walls crossed by the full step of the last returned handler call.
GekreuztImAufruf(voll) ==
    GekreuzteWaende(box,
                    aufruf.vorher[aufruf.teilchen_index][1],
                    aufruf.vorher[aufruf.teilchen_index][2],
                    Plus(aufruf.vorher[aufruf.teilchen_index][1], voll.inkrement[1]),
                    Plus(aufruf.vorher[aufruf.teilchen_index][2], voll.inkrement[2]))

StartInnerhalb ==
    ist_innerhalb(box, Position(aufruf.vorher[aufruf.teilchen_index]))

\* C22: when the candidate end position leaves the box from a start position
\* inside it, the crossing fraction chosen is the smallest t_wall over the
\* walls crossed, it satisfies 0 <= t < 1, and the wall recorded is one that
\* yields it.
C22_KleinsterBruchteil ==
    (BehandleZurueck /\ StartInnerhalb) =>
        \E gekreuzt \in
              {GekreuztImAufruf(rk4_schritt_einzeln(teilchen, aufruf.teilchen_index,
                                                    dt, -1))} :
           gekreuzt # {} =>
              /\ \A g \in gekreuzt : KleinerGleich(aufruf.ergebnis.bruchteil, g.t)
              /\ \E g \in gekreuzt :
                    /\ g.wand = aufruf.ergebnis.wand
                    /\ g.t = aufruf.ergebnis.bruchteil
              /\ KleinerGleich(Null, aufruf.ergebnis.bruchteil)
              /\ Kleiner(aufruf.ergebnis.bruchteil, Ganz(1))

\* The full step crossed a left/right wall first and a bottom/top wall
\* later; the earlier one was recorded.
C22_Zeuge ==
    /\ BehandleZurueck
    /\ StartInnerhalb
    /\ aufruf.ergebnis.wand \in {"links", "rechts"}
    /\ \E gekreuzt \in
              {GekreuztImAufruf(rk4_schritt_einzeln(teilchen, aufruf.teilchen_index,
                                                    dt, -1))} :
           \E g \in gekreuzt :
              /\ g.wand \in {"unten", "oben"}
              /\ Kleiner(aufruf.ergebnis.bruchteil, g.t)

\* A corner: a left/right wall and a bottom/top wall are crossed at the same
\* fraction.
IstEcke(gekreuzt) ==
    \E g \in gekreuzt : \E h \in gekreuzt :
       /\ g.wand \in {"links", "rechts"}
       /\ h.wand \in {"unten", "oben"}
       /\ g.t = h.t

\* C23: when a left/right wall and a bottom/top wall are crossed at exactly
\* the same fraction, the left/right wall is selected at that handler level:
\* only vx is negated there and exactly one collision is counted there.
C23_EckeWaehltSeitenwand ==
    (BehandleZurueck /\ StartInnerhalb) =>
        \E gekreuzt \in
              {GekreuztImAufruf(rk4_schritt_einzeln(teilchen, aufruf.teilchen_index,
                                                    dt, -1))} :
           IstEcke(gekreuzt) =>
              /\ aufruf.ergebnis.wand \in {"links", "rechts"}
              /\ "stufe5" \in DOMAIN aufruf.ergebnis
              /\ aufruf.ergebnis.stufe5.wand = aufruf.ergebnis.wand
              /\ aufruf.ergebnis.stufe5.reflektierter_zustand =
                    <<aufruf.ergebnis.stufe5.zustand_bei_kollision[1],
                      aufruf.ergebnis.stufe5.zustand_bei_kollision[2],
                      Neg(aufruf.ergebnis.stufe5.zustand_bei_kollision[3]),
                      aufruf.ergebnis.stufe5.zustand_bei_kollision[4]>>
              /\ aufruf.ergebnis.stufe5.gesamt_kollisionen =
                    aufruf.ergebnis.stufe5.gesamt_kollisionen_vorher + 1
              /\ aufruf.ergebnis.stufe5.kollisionszaehler =
                    aufruf.ergebnis.stufe5.kollisionszaehler_vorher + 1

\* A corner was hit with both velocity components nonzero on the wall.
C23_Zeuge ==
    /\ BehandleZurueck
    /\ StartInnerhalb
    /\ "stufe5" \in DOMAIN aufruf.ergebnis
    /\ aufruf.ergebnis.stufe5.zustand_bei_kollision[3] # Null
    /\ aufruf.ergebnis.stufe5.zustand_bei_kollision[4] # Null
    /\ IstEcke(GekreuztImAufruf(rk4_schritt_einzeln(teilchen, aufruf.teilchen_index,
                                                      dt, -1)))

EinfachAufruf == aufruf.op = "pruefe_und_behandle_kollisionen_einfach"

RECURSIVE SummeKollisionszaehler(_, _)
\* The sum of the kollisionszaehler of ts[1 .. k].
SummeKollisionszaehler(ts, k) ==
    IF k = 0 THEN 0 ELSE ts[k].kollisionszaehler + SummeKollisionszaehler(ts, k - 1)

\* C24: after any sequence of collision-handling calls (exact or simple) on
\* freshly created particles handled by one box, the box's gesamt_kollisionen
\* equals the sum of the particles' kollisionszaehler, and neither counter
\* ever decreases.
C24_ZaehlerSumme ==
    /\ [](box.gesamt_kollisionen = SummeKollisionszaehler(teilchen, Len(teilchen)))
    /\ [][/\ box'.gesamt_kollisionen >= box.gesamt_kollisionen
          /\ \A k \in DOMAIN teilchen :
                teilchen'[k].kollisionszaehler >= teilchen[k].kollisionszaehler]_vars

\* A simple call counted a collision and an exact call counted another.
C24_Zeuge ==
    /\ BehandleAufruf
    /\ aufruf.kollisionen_vorher = 1
    /\ box.gesamt_kollisionen = 2
    /\ aufruf.vorher[1] = <<Ganz(99), Ganz(50), Ganz(20), Null>>

\* No wall test of lines 115-152 accepts: every bound the end position
\* violates is one the start is already beyond, or the coordinate moved by no
\* more than EPSILON.
KeineWandQualifiziert(b, x0, y0, x1, y1) ==
    /\ Kleiner(x1, b.x_min) =>
          Kleiner(x0, b.x_min) \/ ~GroesserEpsilon(Betrag(Minus(x1, x0)))
    /\ Kleiner(b.x_max, x1) =>
          Kleiner(b.x_max, x0) \/ ~GroesserEpsilon(Betrag(Minus(x1, x0)))
    /\ Kleiner(y1, b.y_min) =>
          Kleiner(y0, b.y_min) \/ ~GroesserEpsilon(Betrag(Minus(y1, y0)))
    /\ Kleiner(b.y_max, y1) =>
          Kleiner(b.y_max, y0) \/ ~GroesserEpsilon(Betrag(Minus(y1, y0)))

\* The candidate of the last returned call is outside the box and no wall
\* crossing qualifies.
OhneQualifizierteWand(kandidat) ==
    /\ ~ist_innerhalb(box, Position(kandidat))
    /\ KeineWandQualifiziert(box,
                             aufruf.vorher[aufruf.teilchen_index][1],
                             aufruf.vorher[aufruf.teilchen_index][2],
                             kandidat[1], kandidat[2])

\* The call negated no velocity, counted nothing, did not recurse and
\* returned the candidate with its position clamped onto the bounds.
GeklemmterKandidat(kandidat) ==
    /\ aufruf.ergebnis.zustand = Geklemmt(box, kandidat)
    /\ aufruf.ergebnis.tiefe = 1
    /\ box.gesamt_kollisionen = aufruf.kollisionen_vorher
    /\ \A k \in DOMAIN teilchen :
          teilchen[k].kollisionszaehler = aufruf.zaehler_vorher[k]

KandidatImAufruf ==
    VPlus(aufruf.vorher[aufruf.teilchen_index],
          rk4_schritt_einzeln(teilchen, aufruf.teilchen_index, dt, -1).inkrement)

\* C25 as stated, for every step size: if the candidate end position is
\* outside the box but no wall crossing qualifies, the handler negates no
\* velocity, increments no counter, does not recurse, and returns the
\* candidate state with its position clamped onto the bounds.
C25_OhneWandGeklemmterKandidat ==
    BehandleZurueck =>
        \E kandidat \in {KandidatImAufruf} :
           OhneQualifizierteWand(kandidat) => GeklemmterKandidat(kandidat)

\* C25, amended: for a step size above EPSILON the handler negates no
\* velocity, increments no counter, does not recurse, and returns the
\* candidate state with its position clamped onto the bounds; for a step size
\* of at most EPSILON it returns the start state clamped in the same way.
C25_OhneWandNachSchrittweite ==
    BehandleZurueck =>
        \E kandidat \in {KandidatImAufruf} :
           OhneQualifizierteWand(kandidat) =>
              IF GroesserEpsilon(dt)
              THEN GeklemmterKandidat(kandidat)
              ELSE GeklemmterKandidat(aufruf.vorher[aufruf.teilchen_index])

\* A call from outside the box with a step above EPSILON returned the
\* clamped candidate, which moved.
C25_Zeuge ==
    /\ BehandleZurueck
    /\ GroesserEpsilon(dt)
    /\ ~StartInnerhalb
    /\ OhneQualifizierteWand(KandidatImAufruf)
    /\ aufruf.ergebnis.zustand[4] # aufruf.vorher[aufruf.teilchen_index][4]

\* dt_nach_kollision of the last call (line 190).
RestzeitImAufruf == Minus(dt, Mal(aufruf.ergebnis.bruchteil, dt))

\* The state computed for the remaining sub-step (lines 196-208): the
\* reflected state plus the RK4 increment over dt_nach_kollision, taken with
\* the target particle at the reflected state.
RestzustandImAufruf ==
    VPlus(aufruf.ergebnis.stufe5.reflektierter_zustand,
          rk4_schritt_einzeln(
              [teilchen EXCEPT ![aufruf.teilchen_index].zustand =
                  aufruf.ergebnis.stufe5.reflektierter_zustand],
              aufruf.teilchen_index, RestzeitImAufruf, -1).inkrement)

\* The remaining sub-step ends inside the box and only the linear
\* look-ahead over 0.1*dt leaves it; the guard of the recursion holds.
NurVorausschau(rest) ==
    /\ GroesserEpsilon(RestzeitImAufruf)
    /\ aufruf.ergebnis.stufe5.gesamt_kollisionen < MAX_KOLLISIONS_ITERATIONEN
    /\ ist_innerhalb(box, Position(rest))
    /\ ~ist_innerhalb(box, <<Plus(rest[1], Mal(rest[3], Mal(dt, Zehntel))),
                             Plus(rest[2], Mal(rest[4], Mal(dt, Zehntel)))>>)

\* C26: if after a reflection the remaining sub-step ends inside the box and
\* the recursion is entered only because the 0.1*dt look-ahead predicts an
\* exit, the recursive call returns exactly the state already computed for
\* the remaining sub-step and changes no collision counter.
C26_RekursionGibtReststandZurueck ==
    (/\ BehandleZurueck
     /\ "stufe5" \in DOMAIN aufruf.ergebnis
     /\ aufruf.ergebnis.stufe5.wand # "keine") =>
        \E rest \in {RestzustandImAufruf} :
           NurVorausschau(rest) =>
              /\ aufruf.ergebnis.ausgang = "rekursion"
              /\ aufruf.ergebnis.tiefe = 2
              /\ aufruf.ergebnis.zustand = rest
              /\ box.gesamt_kollisionen = aufruf.ergebnis.stufe5.gesamt_kollisionen
              /\ teilchen[aufruf.teilchen_index].kollisionszaehler =
                    aufruf.ergebnis.stufe5.kollisionszaehler

C26_Zeuge ==
    /\ BehandleZurueck
    /\ "stufe5" \in DOMAIN aufruf.ergebnis
    /\ aufruf.ergebnis.stufe5.wand # "keine"
    /\ aufruf.ergebnis.ausgang = "rekursion"
    /\ aufruf.ergebnis.stufe5.gesamt_kollisionen = 1
    /\ NurVorausschau(RestzustandImAufruf)

\* C27: for every particle set, index i and step size dt, rk4_schritt_einzeln
\* for particle i returns the same increment as component i of
\* rk4_schritt_system on the same states.
C27_EinzelnGleichSystem ==
    /\ (EinzelnAufruf /\ pc = "zurueck") =>
          aufruf.ergebnis.inkrement =
              rk4_schritt_system(teilchen, dt, -1).inkremente[aufruf.teilchen_index]
    /\ (SystemAufruf /\ pc = "zurueck") =>
          \A k \in DOMAIN teilchen :
             aufruf.ergebnis.inkremente[k] =
                 rk4_schritt_einzeln(teilchen, k, dt, -1).inkrement

\* A single-particle call returned a nonzero velocity increment for a
\* particle with two charged peers.
C27_Zeuge ==
    /\ EinzelnAufruf
    /\ pc = "zurueck"
    /\ Len(teilchen) = 3
    /\ aufruf.ergebnis.inkrement[3] # Null
    /\ aufruf.ergebnis.inkrement =
          rk4_schritt_system(teilchen, dt, -1).inkremente[aufruf.teilchen_index]

\* The particles with the states saved when the schritt call began.
VorDemSchritt ==
    Liste([k \in DOMAIN teilchen |->
             aktualisiere_zustand(teilchen[k], urspruengliche_zustaende[k])])

\* No particle's unconstrained RK4 end position leaves the box.
KeinerVerlaesstDieBox(ts, inkremente) ==
    \A k \in DOMAIN ts :
       ist_innerhalb(box, Position(VPlus(ts[k].zustand, inkremente[k])))

IntegriereAufruf == aufruf.op = "integriere_bis_zeit"

\* A call of integriere_bis_zeit is in its loop.
InZeitschleife == pc = "zeitschleife"

\* The call has returned with gesamtzeit within EPSILON of zielzeit.
ZurueckAmZiel == pc = "bereit" /\ AmZiel(gesamtzeit, zielzeit)

\* An iteration of the while loop: the call is in the loop before and after.
Schleifendurchlauf == pc = "zeitschleife" /\ pc' = "zeitschleife"

\* C29: RK4Integrator.integriere_bis_zeit terminates for every step size dt
\* and every target time zielzeit, ahead of or behind gesamtzeit, and on
\* return gesamtzeit equals zielzeit within EPSILON.  The loop condition and
\* the loop body read nothing but the particles, gesamtzeit, zielzeit and dt,
\* so a loop that ends has no iteration that leaves the particles and
\* gesamtzeit as they were.
C29_Terminiert ==
    /\ [][Schleifendurchlauf => <<teilchen, gesamtzeit>>' # <<teilchen, gesamtzeit>>]_vars
    /\ InZeitschleife ~> ZurueckAmZiel

MitSchrittweite == InZeitschleife /\ dt # Null

\* C29 restricted to step sizes other than zero, where the loop ends.
C29_TerminiertOhneNullschritt == MitSchrittweite ~> ZurueckAmZiel

SpeichernAufruf == aufruf.op = "speichern"

\* C30: Datenverwalter.speichern writes the header followed by one row for
\* every state recorded with erfasse_zustand since construction, in recording
\* order, after any interleaving of erfasse_zustand and
\* speichern_inkrementell calls.
C30_SpeichernSchreibtAlles ==
    SpeichernAufruf => datei = <<header>> \o trajektorien_daten

\* The same for calls of speichern that no speichern_inkrementell preceded.
C30_SpeichernOhneInkrement ==
    (SpeichernAufruf /\ Len(datenpuffer) = Len(trajektorien_daten)) =>
        datei = <<header>> \o trajektorien_daten

=============================================================================
